---- MODULE Spec2Model ----
(***************************************************************************)
(* Model of the API code generator (server/generators, server/parsers)     *)
(* and of the client projects it emits for Node, Go, Java and PHP.         *)
(*                                                                         *)
(* Seven specifications share the module:                                  *)
(*   Spec      one call of the emitted request module's makeRequest        *)
(*   SpecLive  the same call when every attempt and every sleep completes  *)
(*   SpecAuth  one call of the emitted auth module's getAuthHeaders        *)
(*   SpecGen   one call of generate<Target>Code followed by calls of the   *)
(*             generated endpoint methods                                  *)
(*   SpecPure  a series of calls of generate<Target>Code                   *)
(*   SpecParse one call of a normalizer (OpenAPI, Postman, HTML)           *)
(*   SpecConfig one construction of the emitted config module              *)
(***************************************************************************)
EXTENDS Integers, Sequences, FiniteSets, TLC

VARIABLES
  emitter,      \* target language of the emitted project
  maxRetries,   \* config.maxRetries of the configuration object
  limit,        \* local maxRetries of makeRequest
  hasClient,    \* Node only: config.client is a callable HTTP client
  pc,           \* position in makeRequest: "idle", "try", "sleeping", "done"
  attempt,      \* loop variable of makeRequest
  calls,        \* number of loop iterations that called the client
  last,         \* result of the latest executeRequest (lastError / response)
  seen,         \* set of raw server outcomes observed so far in this call
  sleeps,       \* backoff delays (ms) passed to sleep, in order
  result,       \* what makeRequest handed to its caller
  config,       \* auth part of the configuration object
  authResult,   \* what getAuthHeaders returned or raised
  model,        \* canonical model given to the generator
  artifacts,    \* outcome of generate<Target>Code
  request,      \* outcome of the latest call of a generated endpoint method
  history,      \* generate<Target>Code calls made so far, with their outcomes
  document,     \* input handed to a normalizer
  parsed,       \* what the normalizer returned or raised
  settings,     \* values supplied to the config module and its environment
  resolved      \* the configuration the config module resolved

vars == <<emitter, maxRetries, limit, hasClient, pc, attempt, calls, last, seen,
          sleeps, result, config, authResult, model, artifacts, request, history,
          document, parsed, settings, resolved>>

retryVars == <<maxRetries, limit, hasClient, pc, attempt, calls, last, seen, sleeps, result>>
authVars  == <<config, authResult>>
genVars   == <<model, artifacts, request, history>>
parseVars == <<document, parsed>>
settingVars == <<settings, resolved>>

Emitters == {"node", "go", "java", "php"}

Null == "<unset>"     \* undefined (Node), null (Java, PHP)

-----------------------------------------------------------------------------
(* Bounds of the model *)

MaxSmallRetries == 4    \* maxRetries ranges over -1 .. MaxSmallRetries ...
BigRetries == 66        \* ... and one large value, past every integer width
MaxEndpoints == 3       \* longest endpoint list of a canonical model
MaxKeys == 2            \* most keys of one OpenAPI path item

-----------------------------------------------------------------------------
(* 64-bit two's-complement integers as four 16-bit limbs, least significant *)
(* first: the arithmetic of Go's int64 and Java's long.                     *)

Limb == 65536

Zero64 == <<0, 0, 0, 0>>

\* 2^k for 0 <= k <= 63 as an int64 bit pattern (k = 63 is the sign bit)
Bit64(k) == [i \in 1..4 |-> IF (k \div 16) + 1 = i THEN 2^(k % 16) ELSE 0]

\* Long.MAX_VALUE
MaxLong == <<65535, 65535, 65535, 32767>>

\* x * c modulo 2^64, for a small positive c
MulSmall64(x, c) ==
  LET p1 == x[1] * c
      p2 == x[2] * c + (p1 \div Limb)
      p3 == x[3] * c + (p2 \div Limb)
      p4 == x[4] * c + (p3 \div Limb)
  IN  <<p1 % Limb, p2 % Limb, p3 % Limb, p4 % Limb>>

IsNegative64(x) == x[4] >= 32768

\* The value of an int64 as an integer of the model.  Values below -2^30
\* are recorded as -2^30: every use only asks for their sign.
Value64(x) ==
  IF IsNegative64(x)
    THEN IF x[4] = 65535 /\ x[3] = 65535 /\ x[2] >= 49152
           THEN (x[2] - Limb) * Limb + x[1]
           ELSE -(2^30)
    ELSE IF x[4] = 0 /\ x[3] = 0 /\ x[2] < 16384
           THEN x[2] * Limb + x[1]
           ELSE 2^30

\* signed minimum of an int64 and a small non-negative number
Min64(x, cap) ==
  IF IsNegative64(x) THEN Value64(x)
  ELSE IF Value64(x) < cap THEN Value64(x) ELSE cap

-----------------------------------------------------------------------------
(* The server and the transport, as one attempt sees them *)

HttpStatuses == {200, 400, 404, 429, 499, 500, 503}

StatusText(s) ==
  CASE s = 200 -> "OK"
    [] s = 400 -> "Bad Request"
    [] s = 404 -> "Not Found"
    [] s = 429 -> "Too Many Requests"
    [] s = 499 -> "Client Closed Request"
    [] s = 500 -> "Internal Server Error"
    [] s = 503 -> "Service Unavailable"

BodyOf(s) == "payload:" \o StatusText(s)

\* what the transport yields for one attempt: a response with a status, no
\* response at all, or (Node) no call because config.client is not a function
Http(s)     == [kind |-> "http", status |-> s]
NoResponse  == [kind |-> "network", status |-> 0]
NotCallable == [kind |-> "notcallable", status |-> 0]

RawOutcomes(e, client) ==
  IF e = "node" /\ ~client
    THEN {NotCallable}
    ELSE {Http(s) : s \in HttpStatuses} \cup {NoResponse}

\* values handed around by makeRequest: a response or an error object
Value(isOk, type, resp, s, text, body) ==
  [ok |-> isOk, type |-> type, hasResponse |-> resp, status |-> s,
   statusText |-> text, body |-> body]

NoValue == Value(FALSE, "none", FALSE, 0, "", "")

-----------------------------------------------------------------------------
(* One attempt in each emitted request module *)

isSuccessStatus(statusCode) == statusCode >= 200 /\ statusCode < 300

\* Node: response = await this.config.client(config); return response.data
\* (axios rejects every status outside 2xx with an error carrying .response)
nodeClientCall(raw) ==
  CASE raw.kind = "notcallable" -> Value(FALSE, "TypeError", FALSE, 0, "", "")
    [] raw.kind = "network"     -> Value(FALSE, "AxiosError", FALSE, 0, "", "")
    [] raw.kind = "http" ->
         IF isSuccessStatus(raw.status)
           THEN Value(TRUE, "data", TRUE, 0, "", BodyOf(raw.status))
           ELSE Value(FALSE, "AxiosError", TRUE, raw.status,
                      StatusText(raw.status), BodyOf(raw.status))

\* Go: executeRequest; resp.Status is the status line text "404 Not Found"
goExecuteRequest(raw) ==
  IF raw.kind # "http"
    THEN Value(FALSE, "wrapError", FALSE, 0, "", "")
    ELSE LET line == ToString(raw.status) \o " " \o StatusText(raw.status)
         IN  IF ~isSuccessStatus(raw.status)
               THEN Value(FALSE, "ApiError", TRUE, raw.status, line, BodyOf(raw.status))
               ELSE Value(TRUE, "ApiResponse", TRUE, raw.status, line, BodyOf(raw.status))

\* Java: executeRequest; IOException becomes RuntimeException
javaExecuteRequest(raw) ==
  IF raw.kind # "http"
    THEN Value(FALSE, "RuntimeException", FALSE, 0, "", "")
    ELSE IF ~isSuccessStatus(raw.status)
           THEN Value(FALSE, "ApiException", TRUE, raw.status,
                      StatusText(raw.status), BodyOf(raw.status))
           ELSE Value(TRUE, "ApiResponse", TRUE, raw.status,
                      StatusText(raw.status), BodyOf(raw.status))

\* PHP: executeRequest; a GuzzleException with a response becomes
\* ApiException, one without becomes RuntimeException
phpExecuteRequest(raw) ==
  IF raw.kind # "http"
    THEN Value(FALSE, "RuntimeException", FALSE, 0, "", "")
    ELSE IF raw.status >= 400
           THEN Value(FALSE, "ApiException", TRUE, raw.status,
                      StatusText(raw.status), BodyOf(raw.status))
           ELSE Value(TRUE, "ApiResponse", TRUE, raw.status,
                      StatusText(raw.status), BodyOf(raw.status))

executeRequest(e, raw) ==
  CASE e = "node" -> nodeClientCall(raw)
    [] e = "go"   -> goExecuteRequest(raw)
    [] e = "java" -> javaExecuteRequest(raw)
    [] e = "php"  -> phpExecuteRequest(raw)

-----------------------------------------------------------------------------
(* makeRequest: classification, backoff and the retry loop *)

DefaultMaxRetries == 3
BackoffBase == 1000
BackoffCap == 10000

\* Node: const maxRetries = this.config.maxRetries || 3
nodeMaxRetries(m) == IF m = 0 THEN DefaultMaxRetries ELSE m

localMaxRetries(e, m) == IF e = "node" THEN nodeMaxRetries(m) ELSE m

\* "Don't retry on client errors (4xx) except 429"
nodeIsClientError(err) ==
  err.hasResponse /\ err.status >= 400 /\ err.status < 500 /\ err.status # 429

\* the range test written with > instead of >=
goIsClientErrorOffByOne(err) ==
  err.type = "ApiError" /\ err.status > 400 /\ err.status < 500 /\ err.status # 429

goIsClientError(err) ==
  err.type = "ApiError" /\ err.status >= 400 /\ err.status < 500 /\ err.status # 429

javaIsClientError(err) ==
  err.type = "ApiException" /\ err.status >= 400 /\ err.status < 500 /\ err.status # 429

phpIsClientError(err) ==
  err.type = "ApiException" /\ err.status >= 400 /\ err.status < 500 /\ err.status # 429

isClientError(e, err) ==
  CASE e = "node" -> nodeIsClientError(err)
    [] e = "go"   -> goIsClientError(err)
    [] e = "java" -> javaIsClientError(err)
    [] e = "php"  -> phpIsClientError(err)

\* min(base * 2^n, cap) in arithmetic that never wraps (IEEE doubles, PHP
\* integers that widen to float): doubling is monotone, so once the running
\* product has reached the cap the minimum is the cap
RECURSIVE MinDoubling(_, _, _)
MinDoubling(base, n, cap) ==
  IF n = 0 THEN (IF base < cap THEN base ELSE cap)
  ELSE IF base >= cap THEN cap
  ELSE MinDoubling(2 * base, n - 1, cap)

\* Node: Math.min(1000 * Math.pow(2, attempt - 1), 10000)
nodeDelay(a) == MinDoubling(BackoffBase, a - 1, BackoffCap)

\* PHP: min(1000 * pow(2, $attempt - 1), 10000)
phpDelay(a) == MinDoubling(BackoffBase, a - 1, BackoffCap)

\* Go: 1 << n on int64; a shift count of 64 or more yields 0
goShift(n) == IF n >= 64 THEN Zero64 ELSE Bit64(n)

\* Go: min(1000*int64(1<<(attempt-1)), 10000), in milliseconds
goDelay(a) == Min64(MulSmall64(goShift(a - 1), BackoffBase), BackoffCap)

\* Java: (long) Math.pow(2, n) saturates at Long.MAX_VALUE
javaPow(n) == IF n >= 63 THEN MaxLong ELSE Bit64(n)

\* the exponent written as attempt instead of attempt - 1
javaDelayExponentOffByOne(a) == Min64(MulSmall64(javaPow(a), BackoffBase), BackoffCap)

\* Java: Math.min(1000L * (long) Math.pow(2, attempt - 1), 10000L)
javaDelay(a) == Min64(MulSmall64(javaPow(a - 1), BackoffBase), BackoffCap)

backoffDelay(e, a) ==
  CASE e = "node" -> nodeDelay(a)
    [] e = "go"   -> goDelay(a)
    [] e = "java" -> javaDelay(a)
    [] e = "php"  -> phpDelay(a)

\* what the sleep primitive does with the delay: Java's Thread.sleep raises
\* IllegalArgumentException on a negative value; Go's time.Sleep, setTimeout
\* and usleep return
sleepRaises(e, d) == e = "java" /\ d < 0

\* for (attempt = 1; attempt <= maxRetries; attempt++)
FirstAttemptZero == 1 - 1     \* the loop started at 0
FirstAttempt == 1
loopContinues(a, m) == a <= m
isLastAttempt(a, m) == a = m

\* what leaves makeRequest when the loop ends without a return or a throw:
\* throw lastError (Node: undefined, Java and PHP: null), return nil, lastError (Go)
afterLoop(e, lastError) ==
  IF lastError # NoValue THEN lastError
  ELSE CASE e = "node" -> Value(FALSE, "undefined", FALSE, 0, "", "")
         [] e = "go"   -> Value(FALSE, "nil", FALSE, 0, "", "")
         [] e = "java" -> Value(FALSE, "NullPointerException", FALSE, 0, "", "")
         [] e = "php"  -> Value(FALSE, "Error", FALSE, 0, "", "")

-----------------------------------------------------------------------------
(* Spec: one call of makeRequest *)

RetryChoices == (-1 .. MaxSmallRetries) \cup {BigRetries}


\* the configuration with no credential set, and getAuthHeaders not yet called
NoConfig ==
  [authType |-> "none", apiKey |-> Null, bearerToken |-> Null,
   authHeaderName |-> Null, username |-> Null, password |-> Null,
   accessToken |-> Null]
NotCalled == [raised |-> FALSE, headers |-> {}, message |-> "<not called>"]

\* no model parsed, nothing generated, no endpoint method called
NoModel     == [title |-> "", authMethod |-> [type |-> "none"], endpoints |-> <<>>]
NoArtifacts == [status |-> "none", error |-> "", files |-> {}, client |-> <<>>,
                connectivity |-> <<>>, tests |-> <<>>, example |-> <<>>]
NoDocument  == [format |-> "none"]
NotParsed   == [status |-> "none", error |-> "", authMethod |-> [type |-> "none"],
                candidates |-> <<>>, endpoints |-> <<>>]
NoRequest   == [outcome |-> "none", name |-> "", verb |-> "", headers |-> {},
                args |-> {}, query |-> {}]
NotGiven    == [given |-> FALSE, value |-> 0]
NoSettings  == [timeout |-> NotGiven, maxRetries |-> NotGiven, authType |-> Null,
                env |-> [timeout |-> Null, maxRetries |-> Null, authType |-> Null]]
NotResolved == [status |-> "none", timeout |-> 0, maxRetries |-> 0, authType |-> ""]

Init ==
  /\ emitter \in Emitters
  /\ maxRetries \in RetryChoices
  /\ hasClient \in (IF emitter = "node" THEN BOOLEAN ELSE {TRUE})
  /\ limit = 0
  /\ pc = "idle"
  /\ attempt = 0
  /\ calls = 0
  /\ last = NoValue
  /\ seen = {}
  /\ sleeps = <<>>
  /\ result = NoValue
  /\ config = NoConfig /\ authResult = NotCalled
  /\ model = NoModel /\ artifacts = NoArtifacts /\ request = NoRequest
  /\ history = <<>> /\ document = NoDocument /\ parsed = NotParsed
  /\ settings = NoSettings /\ resolved = NotResolved

\* entry of makeRequest: read maxRetries, initialise the loop
Start ==
  /\ pc = "idle"
  /\ limit' = localMaxRetries(emitter, maxRetries)
  /\ attempt' = FirstAttempt
  /\ IF loopContinues(FirstAttempt, limit')
       THEN pc' = "try" /\ result' = result
       ELSE pc' = "done" /\ result' = afterLoop(emitter, NoValue)
  /\ UNCHANGED <<emitter, maxRetries, hasClient, calls, last, seen, sleeps>>
  /\ UNCHANGED <<authVars, genVars, parseVars, settingVars>>

\* one loop iteration, from the call of the client to the return, the throw
\* or the call of sleep
Attempt ==
  /\ pc = "try"
  /\ \E raw \in RawOutcomes(emitter, hasClient) :
       LET r == executeRequest(emitter, raw)
           d == backoffDelay(emitter, attempt)
       IN  /\ calls' = calls + 1
           /\ seen' = seen \cup {raw}
           /\ last' = r
           /\ IF r.ok \/ isClientError(emitter, r) \/ isLastAttempt(attempt, limit)
                THEN pc' = "done" /\ result' = r /\ sleeps' = sleeps
                ELSE IF sleepRaises(emitter, d)
                  THEN /\ pc' = "done"
                       /\ result' = Value(FALSE, "IllegalArgumentException", FALSE, 0, "", "")
                       /\ sleeps' = sleeps
                  ELSE /\ pc' = "sleeping"
                       /\ result' = result
                       /\ sleeps' = Append(sleeps, d)
  /\ UNCHANGED <<emitter, maxRetries, limit, hasClient, attempt>>
  /\ UNCHANGED <<authVars, genVars, parseVars, settingVars>>

\* the sleep returns: attempt++ and the loop test
Wake ==
  /\ pc = "sleeping"
  /\ attempt' = attempt + 1
  /\ IF loopContinues(attempt', limit)
       THEN pc' = "try" /\ result' = result
       ELSE pc' = "done" /\ result' = afterLoop(emitter, last)
  /\ UNCHANGED <<emitter, maxRetries, limit, hasClient, calls, last, seen, sleeps>>
  /\ UNCHANGED <<authVars, genVars, parseVars, settingVars>>

Next == Start \/ Attempt \/ Wake

Spec == Init /\ [][Next]_vars

-----------------------------------------------------------------------------
(* Claims about makeRequest *)

\* the failure classes of the retry policy, read off the latest outcome
IsFailure(v)      == v # NoValue /\ ~v.ok
NonRetryable(v)   == IsFailure(v) /\ v.hasResponse
                     /\ v.status >= 400 /\ v.status < 500 /\ v.status # 429
Retryable(v)      == IsFailure(v) /\ ~NonRetryable(v)
NonRetryableRaw(raw) == raw.kind = "http" /\ raw.status \in {400, 404, 499}

\* C1: for maxRetries >= 1, one makeRequest call never performs more than
\* maxRetries attempts, the first one included, whatever the attempts yield.
C1_AttemptsBounded == maxRetries >= 1 => calls <= maxRetries

C1_Witness ==
  pc = "done" /\ emitter = "php" /\ maxRetries = 3 /\ calls = 3 /\ IsFailure(result)

\* C2: an attempt that fails with a status in [400,500) other than 429 ends
\* the call at once: the error is handed to the caller, no sleep follows the
\* attempt, and when nothing but such statuses was seen exactly one attempt
\* was made, whatever maxRetries is.
C2_NonRetry ==
  /\ NonRetryable(last) =>
       pc = "done" /\ result = last /\ Len(sleeps) = calls - 1
  /\ (seen # {} /\ \A raw \in seen : NonRetryableRaw(raw)) =>
       pc = "done" /\ calls = 1 /\ sleeps = <<>> /\ IsFailure(result)

C2_Witness ==
  pc = "done" /\ emitter = "go" /\ maxRetries = 3 /\ calls = 1
  /\ result.status = 404 /\ sleeps = <<>>

\* C3: with maxRetries = 3 and every attempt answered by 500 there are
\* exactly 3 attempts, a sleep of 1000 ms after the first, of 2000 ms after
\* the second, none after the third, and then the error reaches the caller.
C3_RetryTiming ==
  (maxRetries = 3 /\ seen = {Http(500)}) =>
     /\ calls <= 3
     /\ (pc = "done") = (calls = 3)
     /\ sleeps = SubSeq(<<1000, 2000>>, 1, IF pc = "done" THEN calls - 1 ELSE calls)
     /\ pc = "done" => (IsFailure(result) /\ result.status = 500)

C3_Witness ==
  pc = "done" /\ emitter = "java" /\ maxRetries = 3 /\ seen = {Http(500)}
  /\ calls = 3 /\ sleeps = <<1000, 2000>>

\* min(1000 * 2^(attempt-1), 10000) as the retry policy states it
ExpectedDelay(a) == IF a >= 5 THEN 10000 ELSE 1000 * 2^(a - 1)

\* C4: the delay slept after attempt number i, for every attempt that is
\* followed by a retry, is min(1000 * 2^(i-1), 10000) ms: positive, at most
\* 10000, and 10000 from attempt 5 on, for every maxRetries.
C4_BackoffFormula ==
  \A i \in 1..Len(sleeps) :
     sleeps[i] = ExpectedDelay(i) /\ sleeps[i] > 0 /\ sleeps[i] <= 10000

\* C5: a success ends the call at once with that response; a retryable
\* failure (5xx, 429, no response) of an attempt numbered below maxRetries
\* is followed by a backoff sleep and another attempt.
C5_RetryableClassification ==
  /\ (last # NoValue /\ last.ok) => (pc = "done" /\ result = last)
  /\ (maxRetries >= 1 /\ Retryable(last) /\ calls < maxRetries) =>
       (pc \in {"sleeping", "try"} /\ Len(sleeps) = calls)

\* the typed API error of each emitted error module
typedApiError(e) ==
  CASE e = "node" -> "ApiError"
    [] e = "go"   -> "ApiError"
    [] e = "java" -> "ApiException"
    [] e = "php"  -> "ApiException"

\* C6: the failure that ends a call reaches the caller as the typed API error
\* with status code, status text and raw body when a response was received,
\* and as a transport error only when none was.
C6_TypedError ==
  (pc = "done" /\ calls >= 1 /\ IsFailure(result)) =>
     IF last.hasResponse
       THEN /\ result.type = typedApiError(emitter)
            /\ result.status = last.status
            /\ result.statusText = last.statusText
            /\ result.body = last.body
       ELSE ~result.hasResponse /\ result = last

-----------------------------------------------------------------------------
(* The emitted auth module: getAuthHeaders *)

AuthTypes == {"none", "bearer", "apiKey", "basic", "oauth2", "digest"}

\* a credential field is unset, the empty string, or a value; Go's string
\* fields have no unset state other than ""
FieldValues(e, v) == IF e = "go" THEN {"", v} ELSE {Null, "", v}

Configs(e) ==
  [authType : AuthTypes,
   apiKey : FieldValues(e, "k"),
   bearerToken : FieldValues(e, "t"),
   authHeaderName : FieldValues(e, "X-Custom-Key"),
   username : FieldValues(e, "u"),
   password : FieldValues(e, "p"),
   accessToken : FieldValues(e, "a")]

\* result of getAuthHeaders: a header map (set of name/value pairs) or a
\* raised configuration error (throw, panic)
Headers(h)  == [raised |-> FALSE, headers |-> h, message |-> ""]
Raised(msg) == [raised |-> TRUE, headers |-> {}, message |-> msg]

jsFalsy(v)  == v \in {Null, ""}         \* !v, v || w on undefined and ''
phpEmpty(v) == v \in {Null, "", "0"}    \* empty($v), $v ?: $w

\* base64 of the ASCII text "u:p" (the only credentials pair of the model)
base64(text) == CASE text = "u:p" -> "dTpw" [] OTHER -> "b64:" \o text

nodeGetBearerHeaders(c) ==
  LET token == IF jsFalsy(c.apiKey) THEN c.bearerToken ELSE c.apiKey
  IN  IF jsFalsy(token) THEN Raised("Bearer token is required but not provided")
      ELSE Headers({<<"Authorization", "Bearer " \o token>>})

nodeGetApiKeyHeaders(c) ==
  IF jsFalsy(c.apiKey) THEN Raised("API Key is required but not provided")
  ELSE LET headerName == IF jsFalsy(c.authHeaderName) THEN "X-API-Key"
                         ELSE c.authHeaderName
       IN  Headers({<<headerName, c.apiKey>>})

\* only the username is tested
nodeGetBasicHeadersUsernameOnly(c) ==
  IF jsFalsy(c.username)
    THEN Raised("Username and password are required for Basic authentication")
    ELSE Headers({<<"Authorization", "Basic " \o base64(c.username \o ":" \o c.password)>>})

nodeGetBasicHeaders(c) ==
  IF jsFalsy(c.username) \/ jsFalsy(c.password)
    THEN Raised("Username and password are required for Basic authentication")
    ELSE Headers({<<"Authorization", "Basic " \o base64(c.username \o ":" \o c.password)>>})

nodeGetOAuth2Headers(c) ==
  IF jsFalsy(c.accessToken) THEN Raised("OAuth2 access token is required but not provided")
  ELSE Headers({<<"Authorization", "Bearer " \o c.accessToken>>})

goGetBearerHeaders(c) ==
  LET token == IF c.apiKey = "" THEN c.bearerToken ELSE c.apiKey
  IN  IF token = "" THEN Raised("Bearer token is required but not provided")
      ELSE Headers({<<"Authorization", "Bearer " \o token>>})

goGetApiKeyHeaders(c) ==
  IF c.apiKey = "" THEN Raised("API Key is required but not provided")
  ELSE LET headerName == IF c.authHeaderName = "" THEN "X-API-Key"
                         ELSE c.authHeaderName
       IN  Headers({<<headerName, c.apiKey>>})

goGetBasicHeaders(c) ==
  IF c.username = "" \/ c.password = ""
    THEN Raised("Username and password are required for Basic authentication")
    ELSE Headers({<<"Authorization", "Basic " \o base64(c.username \o ":" \o c.password)>>})

goGetOAuth2Headers(c) ==
  IF c.accessToken = "" THEN Raised("OAuth2 access token is required but not provided")
  ELSE Headers({<<"Authorization", "Bearer " \o c.accessToken>>})

javaGetBearerHeaders(c) ==
  LET token == IF c.apiKey # Null THEN c.apiKey ELSE c.bearerToken
  IN  IF token = Null \/ token = ""
        THEN Raised("Bearer token is required but not provided")
        ELSE Headers({<<"Authorization", "Bearer " \o token>>})

\* the configured header name is never read
javaGetApiKeyHeadersFixedName(c) ==
  IF c.apiKey = Null \/ c.apiKey = ""
    THEN Raised("API Key is required but not provided")
    ELSE Headers({<<"X-API-Key", c.apiKey>>})

javaGetApiKeyHeaders(c) ==
  IF c.apiKey = Null \/ c.apiKey = ""
    THEN Raised("API Key is required but not provided")
    ELSE LET headerName == IF c.authHeaderName # Null THEN c.authHeaderName
                           ELSE "X-API-Key"
         IN  Headers({<<headerName, c.apiKey>>})

javaGetBasicHeaders(c) ==
  IF c.username = Null \/ c.password = Null \/ c.username = "" \/ c.password = ""
    THEN Raised("Username and password are required for Basic authentication")
    ELSE Headers({<<"Authorization", "Basic " \o base64(c.username \o ":" \o c.password)>>})

javaGetOAuth2Headers(c) ==
  IF c.accessToken = Null \/ c.accessToken = ""
    THEN Raised("OAuth2 access token is required but not provided")
    ELSE Headers({<<"Authorization", "Bearer " \o c.accessToken>>})

phpGetBearerHeaders(c) ==
  LET token == IF phpEmpty(c.apiKey) THEN c.bearerToken ELSE c.apiKey
  IN  IF phpEmpty(token) THEN Raised("Bearer token is required but not provided")
      ELSE Headers({<<"Authorization", "Bearer " \o token>>})

phpGetApiKeyHeaders(c) ==
  IF phpEmpty(c.apiKey) THEN Raised("API Key is required but not provided")
  ELSE LET headerName == IF phpEmpty(c.authHeaderName) THEN "X-API-Key"
                         ELSE c.authHeaderName
       IN  Headers({<<headerName, c.apiKey>>})

phpGetBasicHeaders(c) ==
  IF phpEmpty(c.username) \/ phpEmpty(c.password)
    THEN Raised("Username and password are required for Basic authentication")
    ELSE Headers({<<"Authorization", "Basic " \o base64(c.username \o ":" \o c.password)>>})

phpGetOAuth2Headers(c) ==
  IF phpEmpty(c.accessToken) THEN Raised("OAuth2 access token is required but not provided")
  ELSE Headers({<<"Authorization", "Bearer " \o c.accessToken>>})

getBearerHeaders(e, c) ==
  CASE e = "node" -> nodeGetBearerHeaders(c)
    [] e = "go"   -> goGetBearerHeaders(c)
    [] e = "java" -> javaGetBearerHeaders(c)
    [] e = "php"  -> phpGetBearerHeaders(c)

getApiKeyHeaders(e, c) ==
  CASE e = "node" -> nodeGetApiKeyHeaders(c)
    [] e = "go"   -> goGetApiKeyHeaders(c)
    [] e = "java" -> javaGetApiKeyHeaders(c)
    [] e = "php"  -> phpGetApiKeyHeaders(c)

getBasicHeaders(e, c) ==
  CASE e = "node" -> nodeGetBasicHeaders(c)
    [] e = "go"   -> goGetBasicHeaders(c)
    [] e = "java" -> javaGetBasicHeaders(c)
    [] e = "php"  -> phpGetBasicHeaders(c)

getOAuth2Headers(e, c) ==
  CASE e = "node" -> nodeGetOAuth2Headers(c)
    [] e = "go"   -> goGetOAuth2Headers(c)
    [] e = "java" -> javaGetOAuth2Headers(c)
    [] e = "php"  -> phpGetOAuth2Headers(c)

\* switch (authType) ... default: the empty header map
getAuthHeaders(e, c) ==
  CASE c.authType = "bearer" -> getBearerHeaders(e, c)
    [] c.authType = "apiKey" -> getApiKeyHeaders(e, c)
    [] c.authType = "basic"  -> getBasicHeaders(e, c)
    [] c.authType = "oauth2" -> getOAuth2Headers(e, c)
    [] OTHER                 -> Headers({})

-----------------------------------------------------------------------------
(* SpecAuth: one call of getAuthHeaders on an arbitrary configuration *)

InitAuth ==
  /\ emitter \in Emitters
  /\ config \in Configs(emitter)
  /\ authResult = NotCalled
  /\ maxRetries = DefaultMaxRetries /\ limit = 0 /\ hasClient = TRUE
  /\ pc = "idle" /\ attempt = 0 /\ calls = 0 /\ last = NoValue
  /\ seen = {} /\ sleeps = <<>> /\ result = NoValue
  /\ model = NoModel /\ artifacts = NoArtifacts /\ request = NoRequest
  /\ history = <<>> /\ document = NoDocument /\ parsed = NotParsed
  /\ settings = NoSettings /\ resolved = NotResolved

GetAuthHeaders ==
  /\ authResult = NotCalled
  /\ authResult' = getAuthHeaders(emitter, config)
  /\ UNCHANGED <<emitter, config, retryVars, genVars, parseVars, settingVars>>

NextAuth == GetAuthHeaders

SpecAuth == InitAuth /\ [][NextAuth]_vars

-----------------------------------------------------------------------------
(* Claims about getAuthHeaders *)

\* a field the configuration leaves out ("" is Go's only way to leave it out)
Unset(e, v) == IF e = "go" THEN v = "" ELSE v = Null
IsSet(v) == v \notin {Null, ""}

C10_BearerSameFunction ==
  (authResult # NotCalled /\ config.authType = "bearer") =>
     LET token == IF IsSet(config.apiKey) THEN config.apiKey ELSE config.bearerToken
     IN  IF IsSet(token)
           THEN authResult = Headers({<<"Authorization", "Bearer " \o token>>})
           ELSE authResult.raised

\* a credential the configuration does not give: absent or the empty string
Missing(v) == v \in {Null, ""}

\* header values built from the credentials k, t, u:p and a
FromCredentials == {"k", "Bearer k", "Bearer t", "Bearer a", "Basic dTpw"}

\* C11: getAuthHeaders never returns a header built from a missing credential:
\* apiKey without a key, basic without username or without password and oauth2
\* without accessToken raise a configuration error and return no header map;
\* authType none and any unrecognised authType return the empty header map
\* without error.
C11_MissingCredential ==
  authResult # NotCalled =>
     /\ (config.authType = "apiKey" /\ Missing(config.apiKey)) =>
          (authResult.raised /\ authResult.headers = {})
     /\ (config.authType = "basic"
           /\ (Missing(config.username) \/ Missing(config.password))) =>
          (authResult.raised /\ authResult.headers = {})
     /\ (config.authType = "oauth2" /\ Missing(config.accessToken)) =>
          (authResult.raised /\ authResult.headers = {})
     /\ config.authType \in {"none", "digest"} => authResult = Headers({})
     /\ \A h \in authResult.headers : h[2] \in FromCredentials

C11_Witness ==
  /\ authResult.raised
  /\ config.authType = "basic"
  /\ config.username = "u"
  /\ Missing(config.password)

-----------------------------------------------------------------------------
(* The canonical model and the generators *)

Param(name, loc) == [name |-> name, in |-> loc]

Endpoint(id, verb, path, params, body) ==
  [operationId |-> id, method |-> verb, path |-> path, parameters |-> params,
   requestBody |-> body]

\* endpoint shapes: no parameter, path (and header) parameter, query
\* parameters, path and query parameters with body, DELETE with a declared body
Catalogue ==
  { Endpoint("listPets", "GET", "/pets", <<>>, FALSE),
    Endpoint("getPet", "GET", "/pets/{id}",
             <<Param("id", "path"), Param("X-Trace", "header")>>, FALSE),
    Endpoint("searchPets", "GET", "/search",
             <<Param("q", "query"), Param("limit", "query")>>, FALSE),
    Endpoint("updatePet", "PUT", "/pets/{id}",
             <<Param("id", "path"), Param("notify", "query"), Param("dryRun", "query")>>,
             TRUE),
    Endpoint("deletePet", "DELETE", "/pets/{id}",
             <<Param("id", "path"), Param("force", "query")>>, TRUE) }

Models ==
  { [title |-> "Pets", authMethod |-> [type |-> "bearer"], endpoints |-> eps] :
      eps \in UNION { [1..n -> Catalogue] : n \in 0..MaxEndpoints } }

SeqRange(q) == { q[i] : i \in 1..Len(q) }
Names(params) == [i \in 1..Len(params) |-> params[i].name]

\* parameters.filter(p => p.in === 'path'), ... === 'query'
pathParams(ep)  == Names(SelectSeq(ep.parameters, LAMBDA p : p.in = "path"))
queryParams(ep) == Names(SelectSeq(ep.parameters, LAMBDA p : p.in = "query"))

\* requestBody && method !== 'GET' && method !== 'DELETE'
hasBody(ep) == ep.requestBody /\ ep.method # "GET" /\ ep.method # "DELETE"

\* a statement of a generated method: the identifiers it reads and declares
Stmt(reads, declares) == [reads |-> reads, declares |-> declares]

\* generateMethodParameters (Go, Java, PHP)
generateMethodParameters(params, query, body) ==
  params \o query \o (IF body THEN <<"body">> ELSE <<>>)

\* generated method: name, the parenthesised parameter lists that follow the
\* name, statements in order, and the arguments handed to the request module
Method(name, verb, signature, query, statements, passes) ==
  [name |-> name, verb |-> verb, signature |-> signature, query |-> query,
   statements |-> statements, passes |-> passes]

\* Node generateEndpointMethod: async op(options = {}) { ... makeRequest(config) }
nodeEndpointMethod(ep) ==
  LET pp == pathParams(ep)
      qp == queryParams(ep)
      destructure ==
        (IF Len(pp) > 0
           THEN <<Stmt({"options"}, SeqRange(pp) \cup {"restOptions"})>> ELSE <<>>)
        \o (IF Len(qp) > 0
              THEN <<Stmt(IF Len(pp) > 0 THEN {"restOptions"} ELSE {"restOptions", "options"},
                         SeqRange(qp) \cup {"requestOptions"})>>
              ELSE IF Len(pp) > 0
                THEN <<Stmt({"restOptions"}, {"requestOptions"})>> ELSE <<>>)
      url == <<Stmt({}, {"url"})>> \o [i \in 1..Len(pp) |-> Stmt({"url", pp[i]}, {})]
      query == IF Len(qp) > 0
                 THEN <<Stmt({}, {"queryParams"})>>
                      \o [i \in 1..Len(qp) |-> Stmt({qp[i], "queryParams"}, {})]
                 ELSE <<>>
      cfg == <<Stmt({"url", "requestOptions"}
                    \cup (IF Len(qp) > 0 THEN {"queryParams"} ELSE {}), {"config"})>>
             \o (IF hasBody(ep) THEN <<Stmt({"options", "config"}, {})>> ELSE <<>>)
  IN  Method(ep.operationId, ep.method, <<(<<"options">>)>>, qp,
             destructure \o url \o query \o cfg \o <<Stmt({"config"}, {})>>,
             {"method", "url", "requestOptions"}
               \cup (IF Len(qp) > 0 THEN {"params"} ELSE {})
               \cup (IF hasBody(ep) THEN {"data"} ELSE {}))

\* the text after the method name.  Java replaces the "()" of the signature by
\* the parameter list; Go and PHP append the list after the "()".
typedSignature(t, declared) ==
  IF declared = <<>> THEN <<(<<>>)>>
  ELSE IF t = "java" THEN <<declared>>
  ELSE <<(<<>>), declared>>

\* Go, Java and PHP generateEndpointMethod: the same statements in each syntax,
\* ending in makeRequest(httpClient, verb, url, requestBody, getAuthHeaders())
typedEndpointMethod(t, ep) ==
  LET pp == pathParams(ep)
      qp == queryParams(ep)
      url == <<Stmt({}, {"url"})>> \o [i \in 1..Len(pp) |-> Stmt({"url", pp[i]}, {})]
      query == IF Len(qp) > 0
                 THEN <<Stmt({}, {"queryParams"})>>
                      \o [i \in 1..Len(qp) |-> Stmt({qp[i], "queryParams"}, {})]
                      \o <<Stmt({"queryParams", "url"}, {})>>
                 ELSE <<>>
      body == IF hasBody(ep)
                THEN <<Stmt({}, {"requestBody"}), Stmt({"body"}, {})>> ELSE <<>>
  IN  Method(ep.operationId, ep.method,
             typedSignature(t, generateMethodParameters(pp, qp, hasBody(ep))), qp,
             url \o query \o body \o <<Stmt({"url", "requestBody"}, {})>>,
             {"httpClient", "method", "url", "requestBody", "authHeaders"})

generateEndpointMethod(t, ep) ==
  IF t = "node" THEN nodeEndpointMethod(ep) ELSE typedEndpointMethod(t, ep)

\* endpoints.map(endpoint => generateEndpointMethod(endpoint))
generateApiClient(t, m) ==
  [i \in 1..Len(m.endpoints) |-> generateEndpointMethod(t, m.endpoints[i])]

\* the method the client template ends with, after the endpoint methods
connectivityCheck(t) == IF t = "go" THEN <<"TestConnection">> ELSE <<"testConnection">>

\* endpoints.map(endpoint => generateEndpointTest(endpoint))
generateTests(t, m) == [i \in 1..Len(m.endpoints) |-> m.endpoints[i].operationId]

\* identifiers bound where the example callback runs, and those its template
\* reads: Go's template reads the bare identifier operationId
exampleScope == {"endpoint", "endpoints", "title", "parsedData"}
exampleReads(t) ==
  IF t = "go" THEN {"endpoint", "operationId"} ELSE {"endpoint"}

Generated(x) == [threw |-> FALSE, value |-> x]
Threw        == [threw |-> TRUE, value |-> <<>>]

\* endpoints.slice(0, 2).map(endpoint => `...`): the template is evaluated
\* once per endpoint; reading an unbound identifier throws ReferenceError
generateExampleUsage(t, m) ==
  LET firstTwo == SubSeq(m.endpoints, 1, IF Len(m.endpoints) < 2 THEN Len(m.endpoints) ELSE 2)
  IN  IF Len(firstTwo) > 0 /\ ~(exampleReads(t) \subseteq exampleScope)
        THEN Threw
        ELSE Generated([i \in 1..Len(firstTwo) |-> firstTwo[i].operationId])

artifactPaths(t) ==
  CASE t = "node" ->
         {"package.json", "src/ApiClient.js", "src/auth/AuthHandler.js",
          "src/utils/RequestHandler.js", "src/utils/ErrorHandler.js",
          "src/config/Config.js", "tests/ApiClient.test.js",
          "examples/basic-usage.js", ".env.example"}
    [] t = "go" ->
         {"go.mod", "client.go", "auth.go", "request.go", "errors.go", "config.go",
          "models.go", "client_test.go", "example/main.go", ".env.example"}
    [] t = "java" ->
         {"pom.xml", "src/main/java/com/example/ApiClient.java",
          "src/main/java/com/example/auth/AuthHandler.java",
          "src/main/java/com/example/utils/RequestHandler.java",
          "src/main/java/com/example/utils/ErrorHandler.java",
          "src/main/java/com/example/config/Config.java",
          "src/main/java/com/example/models/ApiResponse.java",
          "src/test/java/com/example/ApiClientTest.java",
          "src/main/java/com/example/ExampleUsage.java",
          "src/main/resources/application.properties"}
    [] t = "php" ->
         {"composer.json", "src/ApiClient.php", "src/Auth/AuthHandler.php",
          "src/Utils/RequestHandler.php", "src/Utils/ErrorHandler.php",
          "src/Config/Config.php", "src/Models/ApiResponse.php",
          "tests/ApiClientTest.php", "examples/basic-usage.php", ".env.example"}

\* one map for all calls: the paths every earlier call has stored
keptGeneratedCode ==
  UNION { history[i].result.files : i \in 1..Len(history) }

\* const generatedCode = {}: each call starts from an empty map of its own
newGeneratedCode == {}

\* generateNodeCode, generateGoCode, generateJavaCode, generatePhpCode: the
\* artifact map, or the exception that leaves the function
\* parsedData as the call leaves it.  The templates read it through
\* destructuring, filter, map and slice, which build new arrays;
\* generateMethodParameters pushes onto an array of its own.  Were that array
\* the endpoint's, a body parameter would be added to it.
parametersShared(t, ep) ==
  IF t # "node" /\ hasBody(ep) THEN Append(ep.parameters, Param("body", "body"))
  ELSE ep.parameters
parametersAfter(t, ep) == ep.parameters

parsedDataAfter(t, m) ==
  [m EXCEPT !.endpoints =
     [i \in 1..Len(m.endpoints) |->
        [m.endpoints[i] EXCEPT !.parameters = parametersAfter(t, m.endpoints[i])]]]

generateCode(t, m) ==
  LET example == generateExampleUsage(t, m)
  IN  IF example.threw
        THEN [NoArtifacts EXCEPT !.status = "threw", !.error = "ReferenceError"]
        ELSE [status |-> "ok", error |-> "",
              files |-> newGeneratedCode \cup artifactPaths(t),
              client |-> generateApiClient(t, m),
              connectivity |-> connectivityCheck(t), tests |-> generateTests(t, m),
              example |-> example.value]

\* identifiers a method body reads before anything declares them
RECURSIVE undeclared(_, _)
undeclared(statements, scope) ==
  IF statements = <<>> THEN {}
  ELSE LET s == Head(statements)
       IN  IF s.reads \subseteq scope
             THEN undeclared(Tail(statements), scope \cup s.declares)
             ELSE s.reads \ scope

\* parameters in scope of the body, and whether the signature is one list
declared(m) == UNION { SeqRange(m.signature[g]) : g \in 1..Len(m.signature) }
malformed(m) == Len(m.signature) # 1

faults(m) == undeclared(m.statements, declared(m))

\* values a caller gives a query parameter: omitted (undefined, null; "" is
\* Go's only way to omit a string), the empty string, or a value
ArgValues(t) == IF t = "go" THEN {"", "x"} ELSE {Null, "", "x"}

Pairs(qp, args, kept) == { <<qp[j], args[qp[j]]>> : j \in kept }

\* if (q !== undefined) queryParams.q = q;  for each query parameter
nodeQuery(qp, args) == Pairs(qp, args, { j \in 1..Len(qp) : args[qp[j]] # Null })

\* if q != "" { queryParams["q"] = q }  for each query parameter
goQuery(qp, args) == Pairs(qp, args, { j \in 1..Len(qp) : args[qp[j]] # "" })

\* if (q != null) {...} else if (limit != null) {...}: one chain, so only the
\* first parameter that is not null is appended
javaQuery(qp, args) ==
  LET given == { j \in 1..Len(qp) : args[qp[j]] # Null }
  IN  Pairs(qp, args, { j \in given : \A k \in given : j <= k })

\* if ($q !== null) { $queryParams['q'] = $q; }  for each query parameter
phpQuery(qp, args) == Pairs(qp, args, { j \in 1..Len(qp) : args[qp[j]] # Null })

\* the name/value pairs the method puts into the query string
buildQuery(t, qp, args) ==
  CASE t = "node" -> nodeQuery(qp, args)
    [] t = "go"   -> goQuery(qp, args)
    [] t = "java" -> javaQuery(qp, args)
    [] t = "php"  -> phpQuery(qp, args)

\* what calling generated method i does up to the hand-over to the request
\* module.  An undeclared read is a ReferenceError in the called method
\* (JavaScript), a build failure of the whole client (Go, Java) and a warning
\* with a null value (PHP); a method with two parameter lists is a syntax
\* error of the whole client file.
callMethod(t, client, i, c, args) ==
  LET m == client[i]
      broken ==
        CASE t = "node" -> faults(m) # {}
          [] t \in {"go", "java"} ->
               \E j \in 1..Len(client) : faults(client[j]) # {} \/ malformed(client[j])
          [] t = "php" -> \E j \in 1..Len(client) : malformed(client[j])
      auth == getAuthHeaders(t, c)
      outcome ==
        IF broken THEN IF t = "node" THEN "ReferenceError" ELSE "doesNotBuild"
        ELSE IF "authHeaders" \in m.passes /\ auth.raised THEN "configError"
        ELSE "delegated"
  IN  [outcome |-> outcome, name |-> m.name, verb |-> m.verb,
       headers |-> IF outcome = "delegated" /\ "authHeaders" \in m.passes
                     THEN auth.headers ELSE {},
       args |-> { <<n, args[n]>> : n \in DOMAIN args },
       query |-> IF outcome = "delegated" THEN buildQuery(t, m.query, args) ELSE {}]

-----------------------------------------------------------------------------
(* SpecGen: generate a client from a canonical model, then call one of its
   endpoint methods under a configuration *)

\* configurations with every credential given or none, default header name
GenConfigs(e) ==
  { c \in Configs(e) :
      /\ Unset(e, c.authHeaderName)
      /\ \/ \A f \in {"apiKey", "bearerToken", "username", "password", "accessToken"} :
              IsSet(c[f])
         \/ \A f \in {"apiKey", "bearerToken", "username", "password", "accessToken"} :
              Unset(e, c[f]) }

InitGen ==
  /\ emitter \in Emitters
  /\ model \in Models
  /\ config \in GenConfigs(emitter)
  /\ artifacts = NoArtifacts /\ request = NoRequest
  /\ history = <<>> /\ document = NoDocument /\ parsed = NotParsed
  /\ settings = NoSettings /\ resolved = NotResolved
  /\ authResult = NotCalled
  /\ maxRetries = DefaultMaxRetries /\ limit = 0 /\ hasClient = TRUE
  /\ pc = "idle" /\ attempt = 0 /\ calls = 0 /\ last = NoValue
  /\ seen = {} /\ sleeps = <<>> /\ result = NoValue

Generate ==
  /\ artifacts = NoArtifacts
  /\ artifacts' = generateCode(emitter, model)
  /\ model' = parsedDataAfter(emitter, model)
  /\ UNCHANGED <<emitter, request, history, retryVars, authVars, parseVars, settingVars>>

CallMethod ==
  /\ artifacts.status = "ok"
  /\ request = NoRequest
  /\ \E i \in 1..Len(artifacts.client) :
       \E args \in [SeqRange(artifacts.client[i].query) -> ArgValues(emitter)] :
         request' = callMethod(emitter, artifacts.client, i, config, args)
  /\ UNCHANGED <<emitter, model, artifacts, history, retryVars, authVars, parseVars, settingVars>>

NextGen == Generate \/ CallMethod

SpecGen == InitGen /\ [][NextGen]_vars

-----------------------------------------------------------------------------
(* Claims about the generators *)

\* C7: generation never fails: for every well-formed canonical model (zero,
\* one or more endpoints) and every target, the generate function returns an
\* artifact map and does not throw.
C7_GenerationNeverFails ==
  artifacts # NoArtifacts =>
     /\ artifacts.status = "ok"
     /\ artifacts.files = artifactPaths(emitter)

\* C8: every generated endpoint method, in every emitter, passes the headers
\* getAuthHeaders derives from the configuration to the request module, so a
\* request handed over under bearer/apiKey/basic/oauth2 carries that header.
C8_AuthHeadersPassed ==
  /\ \A i \in 1..Len(artifacts.client) : "authHeaders" \in artifacts.client[i].passes
  /\ request.outcome = "delegated" =>
       request.headers = getAuthHeaders(emitter, config).headers

\* the parameter list the endpoint calls for: path parameters, then query
\* parameters, then body when the endpoint carries one and is not GET/DELETE
ExpectedParameters(ep) ==
  Names(SelectSeq(ep.parameters, LAMBDA p : p.in = "path"))
  \o Names(SelectSeq(ep.parameters, LAMBDA p : p.in = "query"))
  \o (IF ep.requestBody /\ ep.method \notin {"GET", "DELETE"} THEN <<"body">> ELSE <<>>)

\* C12: for every model and target each Endpoint yields exactly one client
\* method, whose declared parameter list is the path parameters, then the
\* query parameters, then one body parameter iff applicable; header parameters
\* never appear.
C12_ParameterList ==
  artifacts.status = "ok" =>
     /\ Len(artifacts.client) = Len(model.endpoints)
     /\ \A i \in 1..Len(model.endpoints) :
          /\ artifacts.client[i].name = model.endpoints[i].operationId
          /\ artifacts.client[i].signature = <<ExpectedParameters(model.endpoints[i])>>

\* C13: in every emitter's endpoint method the query string holds exactly the
\* query parameters the caller supplied with a non-empty value: each supplied
\* one is serialized, also when several are supplied, and no omitted one is.
C13_QueryString ==
  request.outcome = "delegated" =>
     request.query = { a \in request.args : a[2] \notin {Null, ""} }

-----------------------------------------------------------------------------
(* SpecPure: calls of the generators, one after another, on any target and
   model *)

MaxCalls == 3

\* the model without endpoints, with one endpoint, with three
PureModels ==
  { m \in Models : \/ Len(m.endpoints) = 0
                   \/ \E ep \in Catalogue : m.endpoints = <<ep>> /\ ep.operationId = "getPet"
                   \/ /\ Len(m.endpoints) = MaxEndpoints
                      /\ \A i \in 1..Len(m.endpoints) :
                           m.endpoints[i].operationId
                             = (IF i = 1 THEN "updatePet" ELSE "searchPets") }

InitPure ==
  /\ emitter \in Emitters
  /\ model \in PureModels
  /\ history = <<>>
  /\ artifacts = NoArtifacts /\ request = NoRequest
  /\ document = NoDocument /\ parsed = NotParsed
  /\ settings = NoSettings /\ resolved = NotResolved
  /\ config = NoConfig /\ authResult = NotCalled
  /\ maxRetries = DefaultMaxRetries /\ limit = 0 /\ hasClient = TRUE
  /\ pc = "idle" /\ attempt = 0 /\ calls = 0 /\ last = NoValue
  /\ seen = {} /\ sleeps = <<>> /\ result = NoValue

\* generate<Target>Code(parsedData): any target, any model, at any time
GenerateCall(t, m) ==
  /\ Len(history) < MaxCalls
  /\ emitter' = t
  /\ model' = parsedDataAfter(t, m)
  /\ artifacts' = generateCode(t, m)
  /\ history' = Append(history, [target |-> t, model |-> m, result |-> artifacts',
                                 after |-> model'])
  /\ UNCHANGED <<request, retryVars, authVars, parseVars, settingVars>>

NextPure == \E t \in Emitters, m \in PureModels : GenerateCall(t, m)

SpecPure == InitPure /\ [][NextPure]_vars

-----------------------------------------------------------------------------
(* JavaScript string functions used by the normalizers.  A string is a TLA+
   string; At(s, i) is its i-th character. *)

At(s, i) == SubSeq(s, i, i)
From(s, i) == SubSeq(s, i, Len(s))

LowerAlpha == "abcdefghijklmnopqrstuvwxyz"
UpperAlpha == "ABCDEFGHIJKLMNOPQRSTUVWXYZ"
DigitChars == "0123456789"

CharIn(c, alphabet) == \E i \in 1..Len(alphabet) : At(alphabet, i) = c
IndexIn(c, alphabet) == CHOOSE i \in 1..Len(alphabet) : At(alphabet, i) = c

upperChar(c) == IF CharIn(c, LowerAlpha) THEN At(UpperAlpha, IndexIn(c, LowerAlpha)) ELSE c
lowerChar(c) == IF CharIn(c, UpperAlpha) THEN At(LowerAlpha, IndexIn(c, UpperAlpha)) ELSE c

\* s.toUpperCase(), s.toLowerCase()
RECURSIVE toUpperCase(_)
toUpperCase(s) == IF s = "" THEN "" ELSE upperChar(At(s, 1)) \o toUpperCase(From(s, 2))
RECURSIVE toLowerCase(_)
toLowerCase(s) == IF s = "" THEN "" ELSE lowerChar(At(s, 1)) \o toLowerCase(From(s, 2))

\* [a-zA-Z0-9] and \w
isAlnum(c) == CharIn(c, LowerAlpha) \/ CharIn(c, UpperAlpha) \/ CharIn(c, DigitChars)
isWord(c)  == isAlnum(c) \/ c = "_"

\* s.replace(/[^a-zA-Z0-9]/g, '_')
RECURSIVE replaceNonAlnum(_)
replaceNonAlnum(s) ==
  IF s = "" THEN ""
  ELSE (IF isAlnum(At(s, 1)) THEN At(s, 1) ELSE "_") \o replaceNonAlnum(From(s, 2))

\* s.startsWith(prefix), s.includes(part)
startsWith(s, prefix) == Len(prefix) <= Len(s) /\ SubSeq(s, 1, Len(prefix)) = prefix
includes(s, part) ==
  \E i \in 1..(Len(s) - Len(part) + 1) : SubSeq(s, i, i + Len(part) - 1) = part

-----------------------------------------------------------------------------
(* The OpenAPI normalizer (swaggerParser.js) *)

\* the model a normalizer returns, and the failure it throws
Parsed(auth, candidates, endpoints) ==
  [status |-> "ok", error |-> "", authMethod |-> auth, candidates |-> candidates,
   endpoints |-> endpoints]
\* the same failure without the message of the error caught
ParseFailedBare(msg) ==
  [NotParsed EXCEPT !.status = "threw", !.error = "Failed to parse"]
ParseFailed(msg) == [NotParsed EXCEPT !.status = "threw", !.error = msg]

\* Endpoint as the normalizers build it
ParsedEndpoint(verb, path, id, params, body, tags, description) ==
  [method |-> verb, path |-> path, operationId |-> id, parameters |-> params,
   requestBody |-> body, tags |-> tags, description |-> description]

\* the keys of a path item that are tested for; the same list without 'post'
OperationKeysNoPost == {"get", "put", "delete", "patch", "head", "options"}
OperationKeys == {"get", "post", "put", "delete", "patch", "head", "options"}

\* api.components?.securitySchemes, first recognised scheme in document order
RECURSIVE swaggerAuthMethod(_)
swaggerAuthMethod(schemes) ==
  IF schemes = <<>> THEN [type |-> "none"]
  ELSE LET scheme == Head(schemes)
       IN  CASE scheme.type = "http" /\ scheme.scheme = "bearer" ->
                  [type |-> "bearer", name |-> "Authorization"]
             [] scheme.type = "http" /\ scheme.scheme = "basic" ->
                  [type |-> "basic", name |-> "Authorization"]
             [] scheme.type = "apiKey" -> [type |-> "apiKey", name |-> scheme.name]
             [] scheme.type = "oauth2" -> [type |-> "oauth2", name |-> "Authorization"]
             [] OTHER -> swaggerAuthMethod(Tail(schemes))

\* for (const [method, operation] of Object.entries(pathItem))
RECURSIVE swaggerPathItem(_, _)
swaggerPathItem(path, item) ==
  IF item = <<>> THEN <<>>
  ELSE LET method == Head(item).key
           operation == Head(item)
       IN  (IF method \in OperationKeys
              THEN <<ParsedEndpoint(toUpperCase(method), path,
                                    IF jsFalsy(operation.operationId)
                                      THEN method \o "_" \o replaceNonAlnum(path)
                                      ELSE operation.operationId,
                                    operation.parameters, operation.requestBody,
                                    <<>>, "")>>
              ELSE <<>>)
           \o swaggerPathItem(path, Tail(item))

\* for (const [path, pathItem] of Object.entries(paths))
RECURSIVE swaggerExtractEndpoints(_)
swaggerExtractEndpoints(paths) ==
  IF paths = <<>> THEN <<>>
  ELSE swaggerPathItem(Head(paths).path, Head(paths).item)
       \o swaggerExtractEndpoints(Tail(paths))

\* JSON.parse(content): the value, or the SyntaxError with its message. The
\* text is carried by its kind: no JSON at all, the empty or a blank string,
\* the JSON values null, a number, an array, or an object
JsonKinds == {"malformed", "empty", "blank", "null", "number", "array", "object"}
jsonParse(doc) ==
  CASE doc.json = "malformed" -> [threw |-> TRUE, message |-> "Unexpected token"]
    [] doc.json \in {"empty", "blank"} ->
         [threw |-> TRUE, message |-> "Unexpected end of JSON input"]
    [] OTHER -> [threw |-> FALSE, message |-> ""]

parseSwagger(doc) ==
  IF jsonParse(doc).threw
    THEN ParseFailed("Failed to parse Swagger specification: " \o jsonParse(doc).message)
    ELSE Parsed(swaggerAuthMethod(doc.securitySchemes), <<>>,
                swaggerExtractEndpoints(doc.paths))

\* the lists of at most two elements of a set
UpToTwo(S) == {<<>>} \cup { <<a>> : a \in S } \cup (S \X S)

\* OpenAPI documents: an object of paths, each an object of keys in document
\* order (an object has no key twice)
Injective(q) == \A i, j \in 1..Len(q) : q[i] = q[j] => i = j

SwaggerPaths == {"/pets", "/pets/{id}"}
SwaggerKeys  == {"get", "post", "parameters", "summary"}

\* parameter lists a key of the path can carry
SwaggerParams(path, key) ==
  {<<>>} \cup (IF key \in {"get", "parameters"} /\ includes(path, "{id}")
                 THEN {<<Param("id", "path")>>} ELSE {})

SwaggerItems(path) ==
  { item \in UNION { [1..n -> [key : SwaggerKeys,
                               parameters : {<<>>, <<Param("id", "path")>>},
                               operationId : {Null}, requestBody : {FALSE}]] :
                     n \in 0..MaxKeys } :
      /\ Injective([i \in 1..Len(item) |-> item[i].key])
      /\ \A i \in 1..Len(item) : item[i].parameters \in SwaggerParams(path, item[i].key) }

\* documents with one path, and with two different paths in either order
SwaggerPathLists ==
  {<<>>}
  \cup UNION { { <<[path |-> p, item |-> item]>> : item \in SwaggerItems(p) } :
               p \in SwaggerPaths }
  \cup UNION { UNION { { <<[path |-> pq[1], item |-> i1], [path |-> pq[2], item |-> i2]>> :
                         i2 \in SwaggerItems(pq[2]) } : i1 \in SwaggerItems(pq[1]) } :
               pq \in { x \in SwaggerPaths \X SwaggerPaths : x[1] # x[2] } }

\* security schemes: the recognised ones, an http scheme that is not, and an
\* apiKey scheme whose name is left out
SecurityScheme(type, scheme, name) == [type |-> type, scheme |-> scheme, name |-> name]
SecuritySchemes ==
  { SecurityScheme("http", "bearer", Null), SecurityScheme("http", "basic", Null),
    SecurityScheme("http", "digest", Null), SecurityScheme("apiKey", Null, "X-Token"),
    SecurityScheme("apiKey", Null, Null), SecurityScheme("oauth2", Null, Null) }

\* operations that name themselves
Operation(key, id) ==
  [key |-> key, parameters |-> <<>>, operationId |-> id, requestBody |-> FALSE]
NamedOperations ==
  { <<[path |-> "/pets", item |-> <<Operation("get", id)>>]>> :
      id \in {"listPets", "list-pets", "2pets"} }

\* texts that JSON.parse rejects
SwaggerTexts == { [format |-> "openapi", json |-> k] : k \in {"malformed", "empty", "blank"} }

SwaggerDocs ==
  { [format |-> "openapi", json |-> "object", securitySchemes |-> <<>>, paths |-> paths] :
      paths \in SwaggerPathLists \cup NamedOperations }
  \cup { [format |-> "openapi", json |-> "object", securitySchemes |-> schemes,
          paths |-> <<>>] : schemes \in UpToTwo(SecuritySchemes) }
  \cup SwaggerTexts

-----------------------------------------------------------------------------
(* new URL(text): absolute http(s) URLs parse, anything else throws *)

\* position of the first character of s that is in chars, Len(s) + 1 if none
FirstOf(s, chars) ==
  LET hits == { i \in 1..Len(s) : CharIn(At(s, i), chars) }
  IN  IF hits = {} THEN Len(s) + 1 ELSE CHOOSE i \in hits : \A j \in hits : i <= j

isHostChar(c) == isAlnum(c) \/ CharIn(c, ".-")

\* host[:port] with a name of letters, digits, "." and "-" and a numeric port
validHost(hostport) ==
  LET colon == FirstOf(hostport, ":")
      name == SubSeq(hostport, 1, colon - 1)
      port == From(hostport, colon + 1)
  IN  /\ name # ""
      /\ \A i \in 1..Len(name) : isHostChar(At(name, i))
      /\ \A i \in 1..Len(port) : CharIn(At(port, i), DigitChars)

\* the path is percent-encoded: "{" and "}" become %7B and %7D
RECURSIVE encodePath(_)
encodePath(s) ==
  IF s = "" THEN ""
  ELSE (CASE At(s, 1) = "{" -> "%7B" [] At(s, 1) = "}" -> "%7D" [] OTHER -> At(s, 1))
       \o encodePath(From(s, 2))

InvalidUrl == [ok |-> FALSE, protocol |-> "", host |-> "", pathname |-> ""]

urlParse(text) ==
  LET lower == toLowerCase(text)
      skip == IF startsWith(lower, "https://") THEN 8
              ELSE IF startsWith(lower, "http://") THEN 7 ELSE 0
      rest == From(text, skip + 1)
      hostEnd == FirstOf(rest, "/?#")
      host == SubSeq(rest, 1, hostEnd - 1)
      tail == From(rest, hostEnd)
      path == SubSeq(tail, 1, FirstOf(tail, "?#") - 1)
  IN  IF skip = 0 \/ ~validHost(host)
        THEN InvalidUrl
        ELSE [ok |-> TRUE, protocol |-> SubSeq(lower, 1, skip - 2),
              host |-> toLowerCase(host),
              pathname |-> IF path = "" THEN "/" ELSE encodePath(path)]

-----------------------------------------------------------------------------
(* The Postman normalizer (postmanParser.js) *)

\* request.url: a string, an object {raw, path, query}, or absent
UrlString(text) == [kind |-> "string", raw |-> text, path |-> <<>>, query |-> <<>>]
UrlObject(raw, path, query) == [kind |-> "object", raw |-> raw, path |-> path, query |-> query]
UrlMissing == [kind |-> "missing", raw |-> Null, path |-> <<>>, query |-> <<>>]

PostmanRequest(verb, url, header) ==
  [present |-> TRUE, method |-> verb, url |-> url, header |-> header]
NoPostmanRequest ==
  [present |-> FALSE, method |-> Null, url |-> UrlMissing, header |-> <<>>]

\* an item of the tree: a request, or a folder of items, or neither
RequestItem(name, req) ==
  [name |-> name, request |-> req, folder |-> FALSE, item |-> <<>>]
FolderItem(name, items) ==
  [name |-> name, request |-> NoPostmanRequest, folder |-> TRUE, item |-> items]

\* url.path?.join('/')
RECURSIVE join(_, _)
join(parts, sep) ==
  IF parts = <<>> THEN ""
  ELSE IF Len(parts) = 1 THEN parts[1]
  ELSE parts[1] \o sep \o join(Tail(parts), sep)

\* generateOperationId(method, path, name)
postmanOperationId(method, path, name) ==
  LET cleanPath == replaceNonAlnum(path)
      cleanName == IF jsFalsy(name) THEN "" ELSE replaceNonAlnum(name)
  IN  IF cleanName # "" THEN toLowerCase(method) \o "_" \o cleanName
      ELSE toLowerCase(method) \o "_" \o cleanPath

\* headers.filter(h => h.key && !h.key.toLowerCase().includes('authorization'))
postmanHeaderParams(header) ==
  LET kept == SelectSeq(header, LAMBDA k : ~jsFalsy(k)
                                            /\ ~includes(toLowerCase(k), "authorization"))
  IN  [i \in 1..Len(kept) |-> Param(kept[i], "header")]

\* extractEndpointFromRequest(item, parentPath): <<endpoint>>, or <<>> for null
extractEndpointFromRequest(item, parentPath) ==
  LET req == item.request
      url == req.url
      parsedUrl == urlParse(url.raw)
      path == IF url.kind = "string"
                THEN IF parsedUrl.ok THEN parsedUrl.pathname ELSE url.raw
                ELSE join(url.path, "/")
      method == toUpperCase(IF jsFalsy(req.method) THEN "GET" ELSE req.method)
  IN  IF url.kind = "missing" \/ jsFalsy(url.raw) THEN <<>>
      ELSE <<ParsedEndpoint(method,
                            IF startsWith(path, "/") THEN path ELSE "/" \o path,
                            postmanOperationId(method, path, item.name),
                            [i \in 1..Len(url.query) |-> Param(url.query[i], "query")]
                              \o postmanHeaderParams(req.header),
                            FALSE,
                            IF parentPath # "" THEN <<parentPath>> ELSE <<>>,
                            "")>>

\* processItems(items, parentPath)
RECURSIVE processItems(_, _)
processItems(items, parentPath) ==
  IF items = <<>> THEN <<>>
  ELSE LET item == Head(items)
           name == IF jsFalsy(item.name) THEN "unnamed" ELSE item.name
           folderPath == IF parentPath # "" THEN parentPath \o "/" \o name ELSE name
       IN  (IF item.request.present THEN extractEndpointFromRequest(item, parentPath)
            ELSE IF item.folder THEN processItems(item.item, folderPath)
            ELSE <<>>)
           \o processItems(Tail(items), parentPath)

\* extractAuthMethod(collection)
postmanAuthMethod(auth) ==
  CASE auth.type = "bearer" -> [type |-> "bearer", name |-> "Authorization"]
    [] auth.type = "apikey" ->
         [type |-> "apiKey", name |-> IF jsFalsy(auth.key) THEN "X-API-Key" ELSE auth.key]
    [] auth.type = "basic"  -> [type |-> "basic", name |-> "Authorization"]
    [] auth.type = "oauth2" -> [type |-> "oauth2", name |-> "Authorization"]
    [] OTHER -> [type |-> "none"]

\* a collection without auth, and the members an array answers with
NoPostmanAuth == [type |-> "none", key |-> Null]
postmanCollection(doc) ==
  IF doc.json = "array" THEN [auth |-> NoPostmanAuth, item |-> <<>>]
  ELSE [auth |-> doc.auth, item |-> doc.item]

parsePostman(doc) ==
  LET wrap(msg) == ParseFailed("Failed to parse Postman Collection: " \o msg)
      collection == postmanCollection(doc)
  IN  IF doc.json \in {"empty", "blank"}
        THEN wrap("Empty or invalid Postman collection content")
      ELSE IF jsonParse(doc).threw THEN wrap(jsonParse(doc).message)
      ELSE IF doc.json \in {"null", "number"} THEN wrap("Invalid Postman collection format")
      ELSE Parsed(postmanAuthMethod(collection.auth), <<>>,
                  processItems(collection.item, ""))

\* Postman collections: requests with each form of url, in folders two deep
PostmanLeaves ==
  { RequestItem("List pets",
                PostmanRequest("GET", UrlString("https://api.example.com/pets"), <<>>)),
    RequestItem("Get pet",
                PostmanRequest(Null, UrlObject("{{baseUrl}}/pets/:id", <<"pets", ":id">>,
                                               <<"limit">>),
                               <<"Authorization", "X-Trace">>)),
    RequestItem(Null, PostmanRequest("post", UrlString("{{baseUrl}}/pets"), <<>>)),
    RequestItem("Find file",
                PostmanRequest("PROPFIND",
                               UrlObject("https://h.example.com/files/{id}",
                                         <<"files", "{id}">>, <<>>), <<>>)),
    RequestItem("Pet by parts",
                PostmanRequest("GET", UrlObject(Null, <<"pets">>, <<>>), <<>>)),
    RequestItem("No url", PostmanRequest("GET", UrlMissing, <<>>)),
    [name |-> "Note", request |-> NoPostmanRequest, folder |-> FALSE, item |-> <<>>] }

PostmanTreeLeaves ==
  { l \in PostmanLeaves : l.name \in {"List pets", "Find file", "Pet by parts"} }

PostmanInnerFolders == { FolderItem("Admin", <<l>>) : l \in PostmanTreeLeaves }

PostmanFolders ==
  { FolderItem(n, c) : n \in {"Pets", "Store"},
                       c \in UpToTwo(PostmanTreeLeaves \cup PostmanInnerFolders) }

\* collection-level auth: none, each recognised type, one that is not, and
\* apikey with and without the key of its first entry
PostmanAuths ==
  { [type |-> t, key |-> Null] : t \in {"bearer", "basic", "oauth2", "digest", "apikey"} }
  \cup { [type |-> "apikey", key |-> k] : k \in {"X-Token", ""} }

\* texts that are no collection object
PostmanTexts == { [format |-> "postman", json |-> k] : k \in JsonKinds \ {"object"} }

PostmanDocs ==
  { [format |-> "postman", json |-> "object", auth |-> NoPostmanAuth, item |-> items] :
      items \in UpToTwo(PostmanLeaves \cup PostmanFolders) }
  \cup { [format |-> "postman", json |-> "object", auth |-> auth, item |-> items] :
          auth \in PostmanAuths, items \in UpToTwo(PostmanTreeLeaves) }
  \cup PostmanTexts

-----------------------------------------------------------------------------
(* The HTML normalizer (htmlParser.js): regular expressions over the text of
   an element *)

isWs(c) == c = " "

Least(S) == CHOOSE i \in S : \A j \in S : i <= j

\* first position at or after p that holds no white space (Len + 1 if none)
skipWs(text, p) == Least({ q \in p..(Len(text) + 1) : q > Len(text) \/ ~isWs(At(text, q)) })

\* last position of the run of characters of the class that starts at p
\* (p - 1 if the character at p is not of the class)
runEnd(text, p, inClass(_)) ==
  Least({ q \in p..(Len(text) + 1) : q > Len(text) \/ ~inClass(At(text, q)) }) - 1

notWs(c) == ~isWs(c)
notWsOrComma(c) == ~isWs(c) /\ c # ","

MethodWords == {"GET", "POST", "PUT", "DELETE", "PATCH", "HEAD", "OPTIONS"}

\* length of the alternative of (GET|POST|PUT|DELETE|PATCH|HEAD|OPTIONS)
\* that matches at p, ignoring case; 0 if none does
methodLen(text, p) ==
  LET ws == { w \in MethodWords :
                /\ p + Len(w) - 1 <= Len(text)
                /\ toUpperCase(SubSeq(text, p, p + Len(w) - 1)) = w }
  IN  IF ws = {} THEN 0 ELSE Len(CHOOSE w \in ws : TRUE)

NoMatch == [found |-> FALSE, g1 |-> "", g2 |-> ""]
Match(g1, g2) == [found |-> TRUE, g1 |-> g1, g2 |-> g2]

\* /(GET|...)\s+([^\s]+)/i
matchMethodPath(text) ==
  LET at == { p \in 1..Len(text) :
                LET n == methodLen(text, p)
                IN  /\ n > 0
                    /\ p + n <= Len(text)
                    /\ isWs(At(text, p + n))
                    /\ skipWs(text, p + n) <= Len(text) }
  IN  IF at = {} THEN NoMatch
      ELSE LET p == Least(at)
               q == skipWs(text, p + methodLen(text, p))
           IN  Match(SubSeq(text, p, p + methodLen(text, p) - 1),
                     SubSeq(text, q, runEnd(text, q, notWs)))

\* /([^\s]+)\s+(GET|...)/i
matchPathMethod(text) ==
  LET at == { p \in 1..Len(text) :
                /\ ~isWs(At(text, p))
                /\ LET e == runEnd(text, p, notWs)
                   IN  /\ e < Len(text)
                       /\ methodLen(text, skipWs(text, e + 1)) > 0 }
  IN  IF at = {} THEN NoMatch
      ELSE LET p == Least(at)
               e == runEnd(text, p, notWs)
               q == skipWs(text, e + 1)
           IN  Match(SubSeq(text, p, e), SubSeq(text, q, q + methodLen(text, q) - 1))

\* /(GET|...)\s*:\s*([^\s]+)/i
matchMethodColonPath(text) ==
  LET at == { p \in 1..Len(text) :
                LET n == methodLen(text, p)
                    q == skipWs(text, p + n)
                IN  /\ n > 0
                    /\ q <= Len(text)
                    /\ At(text, q) = ":"
                    /\ skipWs(text, q + 1) <= Len(text) }
  IN  IF at = {} THEN NoMatch
      ELSE LET p == Least(at)
               r == skipWs(text, skipWs(text, p + methodLen(text, p)) + 1)
           IN  Match(SubSeq(text, p, p + methodLen(text, p) - 1),
                     SubSeq(text, r, runEnd(text, r, notWs)))

\* /(https?:\/\/[^\s]+)/i
matchUrl(text) ==
  LET starts(p, prefix) ==
        /\ p + Len(prefix) <= Len(text)
        /\ toLowerCase(SubSeq(text, p, p + Len(prefix) - 1)) = prefix
        /\ ~isWs(At(text, p + Len(prefix)))
      at == { p \in 1..Len(text) : starts(p, "http://") \/ starts(p, "https://") }
  IN  IF at = {} THEN NoMatch
      ELSE Match(SubSeq(text, Least(at), runEnd(text, Least(at), notWs)), "")

\* path.replace(/[^\w\/\-{}]/g, '')
RECURSIVE cleanPath(_)
cleanPath(s) ==
  IF s = "" THEN ""
  ELSE (IF isWord(At(s, 1)) \/ CharIn(At(s, 1), "/-{}") THEN At(s, 1) ELSE "")
       \o cleanPath(From(s, 2))

\* generateOperationId(method, path)
htmlOperationId(method, path) == toLowerCase(method) \o "_" \o replaceNonAlnum(path)

\* inferMethodFromContext(text, element)
inferMethodFromContext(text) ==
  LET context == toLowerCase(text)
      any(words) == \E w \in words : includes(context, w)
  IN  CASE any({"get", "retrieve", "fetch"}) -> "GET"
        [] ~any({"get", "retrieve", "fetch"}) /\ any({"post", "create", "add"}) -> "POST"
        [] ~any({"get", "retrieve", "fetch", "post", "create", "add"})
             /\ any({"put", "update", "modify"}) -> "PUT"
        [] ~any({"get", "retrieve", "fetch", "post", "create", "add", "put", "update",
                 "modify"}) /\ any({"delete", "remove"}) -> "DELETE"
        [] ~any({"get", "retrieve", "fetch", "post", "create", "add", "put", "update",
                 "modify", "delete", "remove"}) /\ any({"patch"}) -> "PATCH"
        [] OTHER -> "GET"

\* one match of a parameter pattern at position p: the captured name and the
\* position of the last character matched
NoParamMatch == [found |-> FALSE, name |-> "", end |-> 0]

\* /{(\w+)}/
pathParamAt(text, p) ==
  LET e == runEnd(text, p + 1, isWord)
  IN  IF At(text, p) = "{" /\ e >= p + 1 /\ e + 1 <= Len(text) /\ At(text, e + 1) = "}"
        THEN [found |-> TRUE, name |-> SubSeq(text, p + 1, e), end |-> e + 1]
        ELSE NoParamMatch

\* /[?&](\w+)=/
queryParamAt(text, p) ==
  LET e == runEnd(text, p + 1, isWord)
  IN  IF CharIn(At(text, p), "?&") /\ e >= p + 1 /\ e + 1 <= Len(text)
           /\ At(text, e + 1) = "="
        THEN [found |-> TRUE, name |-> SubSeq(text, p + 1, e), end |-> e + 1]
        ELSE NoParamMatch

\* /(\w+):\s*([^\s,]+)/
keyValueAt(text, p) ==
  LET e == runEnd(text, p, isWord)
      r == skipWs(text, e + 2)
  IN  IF e >= p /\ e + 1 <= Len(text) /\ At(text, e + 1) = ":"
           /\ r <= Len(text) /\ notWsOrComma(At(text, r))
        THEN [found |-> TRUE, name |-> SubSeq(text, p, e),
              end |-> runEnd(text, r, notWsOrComma)]
        ELSE NoParamMatch

\* while ((match = pattern.exec(text)) !== null): the names captured by the
\* successive matches of a global pattern, from position p on
RECURSIVE execAll(_, _, _)
execAll(matchAt(_, _), text, p) ==
  LET at == { q \in p..Len(text) : matchAt(text, q).found }
  IN  IF at = {} THEN <<>>
      ELSE <<matchAt(text, Least(at)).name>>
           \o execAll(matchAt, text, matchAt(text, Least(at)).end + 1)

\* parameters.push(...) unless a parameter of that name is there already
RECURSIVE pushParams(_, _, _)
pushParams(params, names, loc) ==
  IF names = <<>> THEN params
  ELSE pushParams(IF \E i \in 1..Len(params) : params[i].name = Head(names)
                    THEN params ELSE Append(params, Param(Head(names), loc)),
                  Tail(names), loc)

extractParametersFromText(text) ==
  pushParams(pushParams(pushParams(<<>>, execAll(pathParamAt, text, 1), "path"),
                        execAll(queryParamAt, text, 1), "query"),
             execAll(keyValueAt, text, 1), "query")

\* parseEndpointFromText(text, element): <<endpoint>>, or <<>> for null
parseEndpointFromText(text, description) ==
  LET m1 == matchMethodPath(text)
      m2 == matchPathMethod(text)
      m3 == matchMethodColonPath(text)
      m == IF m1.found THEN m1 ELSE IF m2.found THEN m2 ELSE m3
      cleaned == cleanPath(m.g2)
      path == IF startsWith(cleaned, "/") THEN cleaned ELSE "/" \o cleaned
      u == matchUrl(text)
      url == urlParse(u.g1)
  IN  IF m.found
        THEN <<ParsedEndpoint(toUpperCase(m.g1), path,
                              htmlOperationId(toUpperCase(m.g1), path),
                              extractParametersFromText(text), FALSE, <<>>, description)>>
      ELSE IF u.found /\ url.ok
        THEN <<ParsedEndpoint(inferMethodFromContext(text), url.pathname,
                              htmlOperationId(inferMethodFromContext(text), url.pathname),
                              extractParametersFromText(text), FALSE, <<>>, description)>>
      ELSE <<>>

\* the text of the whole page: the texts of its elements, one per line
RECURSIVE pageText(_)
pageText(elements) ==
  IF elements = <<>> THEN ""
  ELSE IF Len(elements) = 1 THEN elements[1].text
  ELSE elements[1].text \o " " \o pageText(Tail(elements))

\* extractDescriptionFromContext(element): no sibling node has a text()
\* function, so the first line of the parent of suitable length that does not
\* start with a method
extractDescriptionFromContext(elements) ==
  LET lines == SelectSeq(elements, LAMBDA el : Len(el.text) > 10 /\ Len(el.text) < 200
                                               /\ methodLen(el.text, 1) = 0)
  IN  IF lines = <<>> THEN "" ELSE lines[1].text

\* the five selectors, in the order they are applied
Selectors == <<"headers", "code", "pre", "classes", "partial">>

selects(selector, el) ==
  CASE selector = "headers" -> el.tag \in {"h1", "h2", "h3", "h4", "h5", "h6"}
    [] selector = "code"    -> el.tag = "code"
    [] selector = "pre"     -> el.tag = "pre"
    [] selector = "classes" -> el.class \in {"endpoint", "api-endpoint", "route"}
    [] selector = "partial" -> \/ includes(el.class, "endpoint")
                               \/ includes(el.class, "api")
                               \/ includes(el.class, "route")

\* endpoints parsed from a list of elements, in order
RECURSIVE parseElements(_, _)
parseElements(elements, description) ==
  IF elements = <<>> THEN <<>>
  ELSE parseEndpointFromText(Head(elements).text, description)
       \o parseElements(Tail(elements), description)

\* for (const selector of endpointSelectors) ... endpoints.push(endpoint)
RECURSIVE htmlCandidates(_, _)
htmlCandidates(selectors, elements) ==
  IF selectors = <<>> THEN <<>>
  ELSE parseElements(SelectSeq(elements, LAMBDA el : selects(Head(selectors), el)),
                     extractDescriptionFromContext(elements))
       \o htmlCandidates(Tail(selectors), elements)

\* the key of the Set of endpoints already kept
dedupKey(ep) == ep.method \o ":" \o ep.path

\* the loop keeps the last endpoint of a key instead of the first
RECURSIVE uniqueEndpointsLastWins(_, _)
uniqueEndpointsLastWins(endpoints, keys) ==
  IF endpoints = <<>> THEN <<>>
  ELSE IF \E i \in 2..Len(endpoints) : dedupKey(endpoints[i]) = dedupKey(Head(endpoints))
    THEN uniqueEndpointsLastWins(Tail(endpoints), keys)
    ELSE <<Head(endpoints)>> \o uniqueEndpointsLastWins(Tail(endpoints), keys)

\* if (!seen.has(key)) { seen.add(key); uniqueEndpoints.push(endpoint); }
RECURSIVE uniqueEndpoints(_, _)
uniqueEndpoints(endpoints, keys) ==
  IF endpoints = <<>> THEN <<>>
  ELSE IF dedupKey(Head(endpoints)) \in keys
    THEN uniqueEndpoints(Tail(endpoints), keys)
    ELSE <<Head(endpoints)>>
         \o uniqueEndpoints(Tail(endpoints), keys \cup {dedupKey(Head(endpoints))})

\* extractAuthMethod($)
htmlAuthMethod(elements) ==
  LET authText == toLowerCase(pageText(elements))
  IN  IF includes(authText, "bearer") THEN [type |-> "bearer", name |-> "Authorization"]
      ELSE IF includes(authText, "api key") \/ includes(authText, "apikey")
        THEN [type |-> "apiKey", name |-> "X-API-Key"]
      ELSE IF includes(authText, "basic auth")
        THEN [type |-> "basic", name |-> "Authorization"]
      ELSE IF includes(authText, "oauth") THEN [type |-> "oauth2", name |-> "Authorization"]
      ELSE [type |-> "none"]

\* extractBaseUrl($): the value returned, or the exception of new URL
BaseUrlPatterns ==
  {"base url", "base url:", "api base", "endpoint base", "server url", "host url"}

htmlBaseUrl(elements) ==
  LET page == pageText(elements)
      blocks == SelectSeq(elements, LAMBDA el : el.tag \in {"code", "pre"}
                                                /\ matchUrl(el.text).found)
  IN  IF (\E w \in BaseUrlPatterns : includes(page, w)) /\ matchUrl(page).found
        THEN [threw |-> FALSE, value |-> matchUrl(page).g1]
      ELSE IF blocks = <<>> THEN [threw |-> FALSE, value |-> ""]
      ELSE LET url == urlParse(matchUrl(blocks[1].text).g1)
           IN  IF url.ok THEN [threw |-> FALSE, value |-> url.protocol \o "//" \o url.host]
               ELSE [threw |-> TRUE, value |-> "Invalid URL"]

parseHtmlDocs(doc) ==
  LET candidates == htmlCandidates(Selectors, doc.elements)
  IN  IF htmlBaseUrl(doc.elements).threw
        THEN ParseFailed("Failed to parse HTML documentation: Invalid URL")
        ELSE Parsed(htmlAuthMethod(doc.elements), candidates, uniqueEndpoints(candidates, {}))

\* pages of up to three elements
Element(tag, class, text) == [tag |-> tag, class |-> class, text |-> text]

HtmlElements ==
  { Element("h2", "", "GET /users/{id}"),
    Element("code", "endpoint", "get /users/{id} limit: 5"),
    Element("pre", "", "/orders POST"),
    Element("code", "", "DELETE: /users/{id}"),
    Element("pre", "", "curl https://<host>/v1/items"),
    Element("code", "", "https://api.example.com/v1/items"),
    Element("p", "", "Authenticate with a bearer token."),
    Element("p", "", "Send your API key in a header."),
    Element("h2", "", "Overview") }

HtmlDocs ==
  { [format |-> "html", elements |-> els] :
      els \in UpToTwo(HtmlElements) \cup (HtmlElements \X HtmlElements \X HtmlElements) }

-----------------------------------------------------------------------------
(* SpecParse: one document, handed to the normalizer of its format *)

InitParse ==
  /\ document \in SwaggerDocs \cup PostmanDocs \cup HtmlDocs
  /\ parsed = NotParsed
  /\ settings = NoSettings /\ resolved = NotResolved
  /\ emitter = "node"
  /\ model = NoModel /\ artifacts = NoArtifacts /\ request = NoRequest
  /\ history = <<>>
  /\ config = NoConfig /\ authResult = NotCalled
  /\ maxRetries = DefaultMaxRetries /\ limit = 0 /\ hasClient = TRUE
  /\ pc = "idle" /\ attempt = 0 /\ calls = 0 /\ last = NoValue
  /\ seen = {} /\ sleeps = <<>> /\ result = NoValue

ParseSwagger ==
  /\ parsed = NotParsed
  /\ document.format = "openapi"
  /\ parsed' = parseSwagger(document)
  /\ UNCHANGED <<emitter, document, retryVars, authVars, genVars, settingVars>>

ParsePostman ==
  /\ parsed = NotParsed
  /\ document.format = "postman"
  /\ parsed' = parsePostman(document)
  /\ UNCHANGED <<emitter, document, retryVars, authVars, genVars, settingVars>>

ParseHtml ==
  /\ parsed = NotParsed
  /\ document.format = "html"
  /\ parsed' = parseHtmlDocs(document)
  /\ UNCHANGED <<emitter, document, retryVars, authVars, genVars, settingVars>>

NextParse == ParseSwagger \/ ParsePostman \/ ParseHtml

SpecParse == InitParse /\ [][NextParse]_vars

-----------------------------------------------------------------------------
(* Claims about the normalizers *)

\* the seven operation keys and the method each stands for
CanonicalVerb ==
  [get |-> "GET", post |-> "POST", put |-> "PUT", delete |-> "DELETE",
   patch |-> "PATCH", head |-> "HEAD", options |-> "OPTIONS"]

\* positions <<path, key>> of the operations of an OpenAPI document
SwaggerOperations ==
  UNION { { <<i, j>> : j \in { k \in 1..Len(document.paths[i].item) :
                                 document.paths[i].item[k].key \in DOMAIN CanonicalVerb } } :
          i \in 1..Len(document.paths) }

\* a is before b in document order
Before(a, b) ==
  \E n \in 1..Len(a) : a[n] < b[n] /\ \A k \in 1..(n - 1) : a[k] = b[k]

Rank(a, positions) == Cardinality({ b \in positions : Before(b, a) }) + 1

\* C15: for every path key and every operation key of that path among
\* get/post/put/delete/patch/head/options, extractEndpoints emits exactly one
\* Endpoint with that verb upper-cased and that path; other path-item keys emit
\* none; endpoints are in document order.
C15_SwaggerComplete ==
  (document.format = "openapi" /\ parsed.status = "ok") =>
     /\ Len(parsed.endpoints) = Cardinality(SwaggerOperations)
     /\ \A a \in SwaggerOperations :
          LET ep == parsed.endpoints[Rank(a, SwaggerOperations)]
          IN  /\ ep.method = CanonicalVerb[document.paths[a[1]].item[a[2]].key]
              /\ ep.path = document.paths[a[1]].path

C15_Witness ==
  /\ document.format = "openapi"
  /\ parsed.status = "ok"
  /\ Len(document.paths) = 2
  /\ Len(document.paths[1].item) = 2
  /\ document.paths[1].item[1].key = "parameters"
  /\ document.paths[1].item[2].key = "post"
  /\ Len(document.paths[2].item) = 2
  /\ Len(parsed.endpoints) = 2

\* positions <<i, j, k>> of the items of a collection that carry a request:
\* top level (j = k = 0), in a folder (k = 0), in a folder of a folder
PostmanRequests ==
  LET top == postmanCollection(document).item
  IN  { <<i, 0, 0>> : i \in { n \in 1..Len(top) : top[n].request.present } }
      \cup UNION { { <<i, j, 0>> :
                       j \in { n \in 1..Len(top[i].item) : top[i].item[n].request.present } } :
                   i \in 1..Len(top) }
      \cup UNION { UNION { { <<i, j, k>> :
                               k \in { n \in 1..Len(top[i].item[j].item) :
                                         top[i].item[j].item[n].request.present } } :
                           j \in 1..Len(top[i].item) } :
                   i \in 1..Len(top) }

\* names of the ancestor folders joined by "/"; no tag at top level
AncestorTag(a) ==
  LET top == postmanCollection(document).item
  IN  IF a[2] = 0 THEN <<>>
      ELSE IF a[3] = 0 THEN <<top[a[1]].name>>
      ELSE <<top[a[1]].name \o "/" \o top[a[1]].item[a[2]].name>>

\* C16: for any nesting of folders every item carrying a request object
\* becomes exactly one Endpoint, in depth-first document order, tagged with
\* its ancestor folder path; nothing is deduplicated.
C16_PostmanTreeWalk ==
  (document.format = "postman" /\ parsed.status = "ok") =>
     /\ Len(parsed.endpoints) = Cardinality(PostmanRequests)
     /\ \A a \in PostmanRequests :
          parsed.endpoints[Rank(a, PostmanRequests)].tags = AncestorTag(a)

Pair(ep) == <<ep.method, ep.path>>

\* index of the first candidate with the pair of ep
FirstDiscovered(ep) ==
  Least({ k \in 1..Len(parsed.candidates) : Pair(parsed.candidates[k]) = Pair(ep) })

\* C17: the heuristic normalizer returns no two Endpoints with the same
\* (method, path) pair; the Endpoint kept for a pair is the first one
\* discovered, and the kept endpoints are in discovery order.
C17_HtmlDedup ==
  (document.format = "html" /\ parsed.status = "ok") =>
     /\ \A i, j \in 1..Len(parsed.endpoints) :
          Pair(parsed.endpoints[i]) = Pair(parsed.endpoints[j]) => i = j
     /\ \A i \in 1..Len(parsed.endpoints) :
          /\ \E k \in 1..Len(parsed.candidates) :
               Pair(parsed.candidates[k]) = Pair(parsed.endpoints[i])
          /\ parsed.endpoints[i] = parsed.candidates[FirstDiscovered(parsed.endpoints[i])]
     /\ \A i, j \in 1..Len(parsed.endpoints) :
          i < j => FirstDiscovered(parsed.endpoints[i]) < FirstDiscovered(parsed.endpoints[j])

C17_Witness ==
  /\ document.format = "html"
  /\ parsed.status = "ok"
  /\ Len(parsed.endpoints) = 2
  /\ \E i, j \in 1..Len(parsed.candidates) :
       /\ i < j
       /\ Pair(parsed.candidates[i]) = Pair(parsed.candidates[j])
       /\ parsed.candidates[i] # parsed.candidates[j]
       /\ parsed.endpoints[1] = parsed.candidates[i]

\* C18: the heuristic normalizer never fails: for every input text,
\* malformed URL-shaped tokens in code/pre blocks included, parseHtmlDocs
\* returns a model and never throws.
C18_HtmlNeverFails ==
  (document.format = "html" /\ parsed # NotParsed) => parsed.status = "ok"

\* C19: every Endpoint of every normalizer has a method that is one of GET,
\* POST, PUT, PATCH, DELETE, HEAD, OPTIONS in upper case.
C19_CanonicalMethod ==
  \A i \in 1..Len(parsed.endpoints) :
     parsed.endpoints[i].method
       \in {"GET", "POST", "PUT", "PATCH", "DELETE", "HEAD", "OPTIONS"}

\* C20: every Endpoint of every normalizer has a non-empty path beginning
\* with "/", and every {name} placeholder of the path names a parameter of the
\* endpoint with in = "path".
C20_PathPlaceholders ==
  \A i \in 1..Len(parsed.endpoints) :
     LET ep == parsed.endpoints[i]
         placeholders == SeqRange(execAll(pathParamAt, ep.path, 1))
     IN  /\ ep.path # ""
         /\ At(ep.path, 1) = "/"
         /\ \A name \in placeholders :
              \E k \in 1..Len(ep.parameters) :
                 ep.parameters[k].name = name /\ ep.parameters[k].in = "path"

\* C21: whenever a normalizer returns authMethod.type = "apiKey", the returned
\* authMethod carries a non-empty name, defaulted when the source omits it, for
\* the OpenAPI, the Postman and the HTML normalizer alike.
C21_ApiKeyNamed ==
  (parsed.status = "ok" /\ parsed.authMethod.type = "apiKey") =>
     IsSet(parsed.authMethod.name)

\* the same for the two normalizers that default the name
C21_ApiKeyNamedDefaulting ==
  (document.format \in {"postman", "html"} /\ parsed.status = "ok"
     /\ parsed.authMethod.type = "apiKey") => IsSet(parsed.authMethod.name)

\* an OpenAPI document whose first recognised scheme is an apiKey scheme
\* without a name
C21_NamelessScheme ==
  /\ document.format = "openapi" /\ document.json = "object"
  /\ Len(document.securitySchemes) > 0
  /\ document.securitySchemes[1] = SecurityScheme("apiKey", Null, Null)
  /\ parsed.status = "ok"

\* a non-empty word of letters, digits and "_" that does not start with a digit
isIdentifier(s) ==
  /\ IsSet(s)
  /\ \A i \in 1..Len(s) : isWord(At(s, i))
  /\ ~CharIn(At(s, 1), DigitChars)

\* C22: every Endpoint of every normalizer has an operationId that is a
\* non-empty bare identifier (letters, digits, underscore, not starting with a
\* digit), whether the source supplied it or the normalizer derived it from
\* method and path.
C22_OperationIdIdentifier ==
  \A i \in 1..Len(parsed.endpoints) : isIdentifier(parsed.endpoints[i].operationId)

\* the same for the Postman normalizer and for OpenAPI operations that leave
\* their operationId out
C22_DerivedIdentifier ==
  (document.format = "postman"
     \/ (document.format = "openapi" /\ document.json = "object"
           /\ \A i \in 1..Len(document.paths) : \A k \in 1..Len(document.paths[i].item) :
                 document.paths[i].item[k].operationId = Null)) =>
     \A i \in 1..Len(parsed.endpoints) : isIdentifier(parsed.endpoints[i].operationId)

\* texts the structured normalizers must reject: no JSON (the empty and the
\* blank text included) and, for Postman, a JSON value that is null or not of
\* type object
Rejected ==
  \/ document.json \in {"malformed", "empty", "blank"}
  \/ document.format = "postman" /\ document.json \in {"null", "number"}

\* what the failure has to tell
Diagnostic ==
  CASE document.format = "postman" /\ document.json \in {"empty", "blank"} ->
         "Empty or invalid Postman collection content"
    [] document.format = "postman" /\ document.json \in {"null", "number"} ->
         "Invalid Postman collection format"
    [] document.format = "openapi" /\ document.json \in {"empty", "blank"} ->
         "Unexpected end of JSON input"
    [] OTHER -> "Unexpected token"

Recognised(scheme) ==
  CASE scheme.type = "http" /\ scheme.scheme = "bearer" -> "bearer"
    [] scheme.type = "http" /\ scheme.scheme = "basic" -> "basic"
    [] scheme.type \in {"apiKey", "oauth2"} -> scheme.type
    [] OTHER -> "none"

\* the kind of highest priority among the declared schemes
HighestPriority(schemes) ==
  LET kinds == { Recognised(schemes[i]) : i \in 1..Len(schemes) }
  IN  CASE "bearer" \in kinds -> "bearer"
        [] "bearer" \notin kinds /\ "basic" \in kinds -> "basic"
        [] {"bearer", "basic"} \cap kinds = {} /\ "apiKey" \in kinds -> "apiKey"
        [] {"bearer", "basic", "apiKey"} \cap kinds = {} /\ "oauth2" \in kinds -> "oauth2"
        [] OTHER -> "none"

\* C24: OpenAPI auth derivation follows the priority order http-bearer,
\* http-basic, apiKey, oauth2: with several schemes declared the returned
\* authMethod is the recognised scheme of highest priority whatever the order
\* of declaration; with no scheme declared the result is { type: none }.
C24_AuthPriority ==
  (document.format = "openapi" /\ parsed.status = "ok") =>
     parsed.authMethod.type = HighestPriority(document.securitySchemes)

\* what the scan does return: the first recognised scheme in document order
C24_FirstDeclared ==
  (document.format = "openapi" /\ parsed.status = "ok") =>
     LET schemes == document.securitySchemes
         hits == { i \in 1..Len(schemes) : Recognised(schemes[i]) # "none" }
     IN  parsed.authMethod.type
           = (IF hits = {} THEN "none" ELSE Recognised(schemes[Least(hits)]))

-----------------------------------------------------------------------------
(* The emitted config modules: timeout, maxRetries and authType from the
   values supplied by the caller, the environment (Node, Go, PHP) or
   application.properties (Java), and the defaults *)

DefaultTimeout == 30000

\* value of a run of decimal digits
RECURSIVE decimal(_)
decimal(s) ==
  IF s = "" THEN 0
  ELSE decimal(SubSeq(s, 1, Len(s) - 1)) * 10 + (IndexIn(At(s, Len(s)), DigitChars) - 1)

\* the longest prefix of s made of digits
digitPrefix(s) ==
  SubSeq(s, 1, Least({ q \in 1..(Len(s) + 1) :
                         q > Len(s) \/ ~CharIn(At(s, q), DigitChars) }) - 1)

\* sign and digits read from the front of s: ok is FALSE without a digit, rest
\* is TRUE when characters follow the digits
readInt(s) ==
  LET negative == Len(s) > 0 /\ At(s, 1) = "-"
      signed == Len(s) > 0 /\ CharIn(At(s, 1), "+-")
      body == IF signed THEN From(s, 2) ELSE s
      digits == digitPrefix(body)
  IN  [ok |-> digits # "",
       value |-> IF negative THEN 0 - decimal(digits) ELSE decimal(digits),
       rest |-> Len(digits) < Len(body)]

\* parseInt(text): NaN for undefined and for text without leading digits
jsParseInt(text) ==
  IF text = Null THEN [nan |-> TRUE, value |-> 0]
  ELSE LET r == readInt(From(text, skipWs(text, 1)))
       IN  [nan |-> ~r.ok, value |-> r.value]

\* strconv.Atoi(text), Integer.parseInt(text): the whole text is one integer
atoi(text) ==
  LET r == readInt(text) IN [err |-> ~r.ok \/ r.rest, value |-> r.value]

\* (int) $text: the leading integer, 0 without one
phpIntCast(text) ==
  LET r == readInt(From(text, skipWs(text, 1))) IN IF r.ok THEN r.value ELSE 0

Resolved(timeout, retries, authType) ==
  [status |-> "ok", timeout |-> timeout, maxRetries |-> retries, authType |-> authType]

\* new Config(config): config.x || parseInt(process.env.X) || default
nodeConfig(s) ==
  LET number(x, text, default) ==
        IF x.given /\ x.value # 0 THEN x.value
        ELSE IF ~jsParseInt(text).nan /\ jsParseInt(text).value # 0
          THEN jsParseInt(text).value
        ELSE default
  IN  Resolved(number(s.timeout, s.env.timeout, DefaultTimeout),
               number(s.maxRetries, s.env.maxRetries, DefaultMaxRetries),
               IF ~jsFalsy(s.authType) THEN s.authType
               ELSE IF ~jsFalsy(s.env.authType) THEN s.env.authType
               ELSE "none")

\* values not above zero are replaced by the default
positiveOr(value, default) == IF value <= 0 THEN default ELSE value

\* NewConfig(): getEnv, getEnvAsInt, then the defaults
goNewConfig(s) ==
  LET getEnv(text, default) == IF text \notin {Null, ""} THEN text ELSE default
      getEnvAsInt(text, default) ==
        IF text \notin {Null, ""} /\ ~atoi(text).err THEN atoi(text).value ELSE default
      authType == getEnv(s.env.authType, "none")
  IN  Resolved(positiveOr(getEnvAsInt(s.env.timeout, DefaultTimeout), DefaultTimeout),
               positiveOr(getEnvAsInt(s.env.maxRetries, DefaultMaxRetries),
                          DefaultMaxRetries),
               IF authType = "" THEN "none" ELSE authType)

\* new Config(): loadProperties(), setDefaults(); Integer.parseInt throws
\* NumberFormatException, which loadProperties does not catch
javaConfig(s) ==
  LET getProperty(text, default) == IF text = Null THEN default ELSE text
      timeout == atoi(getProperty(s.env.timeout, "30000"))
      retries == atoi(getProperty(s.env.maxRetries, "3"))
  IN  IF timeout.err \/ retries.err
        THEN [NotResolved EXCEPT !.status = "NumberFormatException"]
        ELSE Resolved(positiveOr(timeout.value, DefaultTimeout),
                      positiveOr(retries.value, DefaultMaxRetries),
                      getProperty(s.env.authType, "none"))

\* new Config($config): loadConfig($config), setDefaults()
phpConfig(s) ==
  LET number(x, text, default) ==
        IF x.given THEN x.value ELSE IF text # Null THEN phpIntCast(text) ELSE default
      authType == IF s.authType # Null THEN s.authType
                  ELSE IF s.env.authType # Null THEN s.env.authType ELSE "none"
  IN  Resolved(positiveOr(number(s.timeout, s.env.timeout, DefaultTimeout), DefaultTimeout),
               positiveOr(number(s.maxRetries, s.env.maxRetries, DefaultMaxRetries),
                          DefaultMaxRetries),
               IF phpEmpty(authType) THEN "none" ELSE authType)

newConfig(e, s) ==
  CASE e = "node" -> nodeConfig(s)
    [] e = "go"   -> goNewConfig(s)
    [] e = "java" -> javaConfig(s)
    [] e = "php"  -> phpConfig(s)

\* what a caller can supply (Node's object, PHP's array; NewConfig() and
\* new Config() of Go and Java take nothing) and what the environment holds
SuppliedNumbers == {NotGiven} \cup { [given |-> TRUE, value |-> v] : v \in {0, 0 - 1, 5} }
EnvNumbers == {Null, "", "7", "-2", "abc", "7x"}
SuppliedAuthTypes == {Null, "", "bearer"}
EnvAuthTypes == {Null, "", "basic"}

Settings(e) ==
  { x \in [timeout : SuppliedNumbers, maxRetries : SuppliedNumbers,
           authType : SuppliedAuthTypes,
           env : [timeout : EnvNumbers, maxRetries : EnvNumbers, authType : EnvAuthTypes]] :
      e \in {"go", "java"} =>
        (x.timeout = NotGiven /\ x.maxRetries = NotGiven /\ x.authType = Null) }

InitConfig ==
  /\ emitter \in Emitters
  /\ settings \in Settings(emitter)
  /\ resolved = NotResolved
  /\ document = NoDocument /\ parsed = NotParsed
  /\ model = NoModel /\ artifacts = NoArtifacts /\ request = NoRequest
  /\ history = <<>>
  /\ config = NoConfig /\ authResult = NotCalled
  /\ maxRetries = DefaultMaxRetries /\ limit = 0 /\ hasClient = TRUE
  /\ pc = "idle" /\ attempt = 0 /\ calls = 0 /\ last = NoValue
  /\ seen = {} /\ sleeps = <<>> /\ result = NoValue

NewConfig ==
  /\ resolved = NotResolved
  /\ resolved' = newConfig(emitter, settings)
  /\ UNCHANGED <<emitter, settings, retryVars, authVars, genVars, parseVars>>

NextConfig == NewConfig

SpecConfig == InitConfig /\ [][NextConfig]_vars

\* a supplied value, and an environment text, that is a positive integer
Usable(x) == x.given /\ x.value > 0
EnvUsable(text) == text # Null /\ ~atoi(text).err /\ atoi(text).value > 0

\* the value the order explicit, environment, default gives a number
ExpectedNumber(x, text, default) ==
  IF Usable(x) THEN x.value ELSE IF EnvUsable(text) THEN atoi(text).value ELSE default

ExpectedAuthType ==
  IF IsSet(settings.authType) THEN settings.authType
  ELSE IF IsSet(settings.env.authType) THEN settings.env.authType ELSE "none"

\* the environment text is absent or an integer, so that its value is not in
\* question
Plain(text) == text = Null \/ ~atoi(text).err

\* C25: in every emitted config module each of timeout, maxRetries and
\* authType takes the explicitly supplied value if given, else the environment
\* value if set, else the default (30000, 3, "none"); the resolved maxRetries
\* and timeout are always positive integers.
C25_ConfigResolution ==
  resolved # NotResolved =>
     /\ resolved.status = "ok"
     /\ resolved.timeout > 0 /\ resolved.maxRetries > 0
     /\ Plain(settings.env.timeout) =>
          resolved.timeout
            = ExpectedNumber(settings.timeout, settings.env.timeout, DefaultTimeout)
     /\ Plain(settings.env.maxRetries) =>
          resolved.maxRetries
            = ExpectedNumber(settings.maxRetries, settings.env.maxRetries, DefaultMaxRetries)
     /\ resolved.authType = ExpectedAuthType

\* the same for Go, whose NewConfig replaces every value not above zero
C25_GoResolution ==
  (emitter = "go" /\ resolved # NotResolved) =>
     /\ resolved.status = "ok"
     /\ resolved.timeout > 0 /\ resolved.maxRetries > 0
     /\ Plain(settings.env.timeout) =>
          resolved.timeout
            = ExpectedNumber(settings.timeout, settings.env.timeout, DefaultTimeout)
     /\ Plain(settings.env.maxRetries) =>
          resolved.maxRetries
            = ExpectedNumber(settings.maxRetries, settings.env.maxRetries, DefaultMaxRetries)
     /\ resolved.authType = ExpectedAuthType

\* Node only: a negative number, supplied or read from the environment, is
\* the resolved value
C25_NodeNegative ==
  /\ emitter = "node"
  /\ resolved.status = "ok"
  /\ resolved.maxRetries < 0

\* C26: for a model with n endpoints each emitter's client artifact holds
\* exactly n endpoint methods and one connectivity check, and its test
\* artifact exactly n endpoint test stubs, both in the order of
\* model.endpoints, also when two endpoints carry the same operationId.
C26_OnePerEndpoint ==
  artifacts # NoArtifacts =>
     /\ artifacts.status = "ok"
     /\ Len(artifacts.client) = Len(model.endpoints)
     /\ Len(artifacts.connectivity) = 1
     /\ Len(artifacts.tests) = Len(model.endpoints)
     /\ \A i \in 1..Len(model.endpoints) :
          /\ artifacts.client[i].name = model.endpoints[i].operationId
          /\ artifacts.tests[i] = model.endpoints[i].operationId

\* the same wherever generation returns its artifacts
C26_OnePerEndpointGenerated ==
  artifacts.status = "ok" =>
     /\ Len(artifacts.client) = Len(model.endpoints)
     /\ Len(artifacts.connectivity) = 1
     /\ Len(artifacts.tests) = Len(model.endpoints)
     /\ \A i \in 1..Len(model.endpoints) :
          /\ artifacts.client[i].name = model.endpoints[i].operationId
          /\ artifacts.tests[i] = model.endpoints[i].operationId

DelegationVariables == {"requestBody", "restOptions", "requestOptions"}

\* C28: in every emitter and for every combination of path parameters, query
\* parameters and body, each variable the generated endpoint method reads when
\* delegating to the request module (requestBody in Go, Java and PHP,
\* restOptions and requestOptions in Node) is declared earlier in that method.
C28_DelegationDeclared ==
  \A i \in 1..Len(artifacts.client) :
     faults(artifacts.client[i]) \cap DelegationVariables = {}

\* the same for the endpoints whose method holds the declaring statement: a
\* path parameter in Node, a body in Go, Java and PHP
C28_DeclaredWithPathOrBody ==
  artifacts.status = "ok" =>
     \A i \in 1..Len(artifacts.client) :
        (IF emitter = "node" THEN Len(pathParams(model.endpoints[i])) > 0
         ELSE hasBody(model.endpoints[i]))
          => faults(artifacts.client[i]) \cap DelegationVariables = {}

\* what the caller holds is a response, or an error that is an object
IsResponse(v) == v.ok
IsRealError(v) == ~v.ok /\ v.type \notin {"none", "undefined", "nil"}

\* C29: for every configuration the request module can be constructed with,
\* a maxRetries of 0 or below set directly on the config object included,
\* makeRequest performs at least one attempt and ends with exactly one of a
\* response or a real (non-null) error; it never returns neither.
C29_AttemptAndOutcome ==
  pc = "done" => (calls >= 1 /\ (IsResponse(result) \/ IsRealError(result)))

\* the same for the calls whose loop is entered
C29_WhenLoopEntered ==
  (pc = "done" /\ limit >= 1) => (calls >= 1 /\ (IsResponse(result) \/ IsRealError(result)))

\* Go with maxRetries 0: no attempt, and nil for the response and the error
C29_GoNeither ==
  /\ pc = "done" /\ emitter = "go" /\ maxRetries = 0
  /\ calls = 0 /\ ~IsResponse(result) /\ ~IsRealError(result)

-----------------------------------------------------------------------------
(* SpecLive: makeRequest when the client answers every attempt (with a
   response or a failure) and every sleep returns; the call itself is made *)

SpecLive == Spec /\ WF_vars(Start) /\ WF_vars(Attempt) /\ WF_vars(Wake)

AtLeastZero(n) == IF n < 0 THEN 0 ELSE n

Returned == pc = "done" /\ (IsResponse(result) \/ IsRealError(result))

\* C30: makeRequest always terminates: for every finite maxRetries and every
\* server behaviour, endless failure included, the call eventually returns a
\* response or surfaces an error, after at most maxRetries attempts and
\* maxRetries - 1 sleeps.
C30_Terminates ==
  /\ <>Returned
  /\ [](calls <= AtLeastZero(maxRetries) /\ Len(sleeps) <= AtLeastZero(maxRetries - 1))

\* the same for maxRetries >= 1
C30_TerminatesFromOne ==
  /\ (maxRetries >= 1) => <>Returned
  /\ [](maxRetries >= 1 => (calls <= maxRetries /\ Len(sleeps) <= maxRetries - 1))

\* every call comes to its end, whatever maxRetries is
C30_CallEnds == <>(pc = "done")

====
